---- MODULE Spec2Model ----
(***************************************************************************)
(* Model of the tool-parse engine: the type resolver (_types.py), the      *)
(* schema marshaller (marshal.py) and the argument compiler (compile.py).  *)
(*                                                                         *)
(* Every Python object the engine handles (annotations, raw JSON values,   *)
(* compiled values, schema fragments) is a Node [k, s, items]: k is the   *)
(* kind, s a string payload and items the ordered children.  Python dicts  *)
(* keep insertion order, so a dict is a Node whose items are its entries   *)
(* in insertion order.  Numbers are carried as numerals so that values of  *)
(* different Python types stay comparable.                                 *)
(*                                                                         *)
(* marshal.py:64 and compile.py:88 call ts.get_signature(__fn); the model  *)
(* takes the call to return inspect.signature(__fn), i.e. the declared     *)
(* parameters in order, as the body of get_signature does.                 *)
(***************************************************************************)
EXTENDS Naturals, Sequences, FiniteSets, TLC

VARIABLES pc, target, call, result, mapping, loop, registry

vars == <<pc, target, call, result, mapping, loop, registry>>

\* ------------------------------------------------------------------ bounds
MaxMembers == 2

MaxDepth == 6

\* ------------------------------------------------------------------- nodes
Node(k, s, items) == [k |-> k, s |-> s, items |-> items]

NoneV == Node("NoneType", "None", <<>>)

Str(s) == Node("str", s, <<>>)

Int(s) == Node("int", s, <<>>)

Float(s) == Node("float", s, <<>>)

Bool(s) == Node("bool", s, <<>>)

List(items) == Node("list", "", items)

Entry(key, v) == Node("entry", key, <<v>>)

Dict(entries) == Node("dict", "", entries)

\* inspect._empty / PydanticUndefined / "no class attribute": no default
Missing == Node("missing", "", <<>>)

\* annotations
Type(name) == Node("type", name, <<>>)

Generic(origin, args) == Node("generic", origin, args)

ForwardRef(name) == Node("fwd", name, <<>>)

Optional(a) == Generic("Union", <<a, Type("NoneType")>>)

\* --------------------------------------------------------- sequence helpers
SeqToSet(s) == {s[i] : i \in 1..Len(s)}

RECURSIVE IndexOf(_, _, _)
IndexOf(s, x, i) ==
    IF i > Len(s) THEN 0
    ELSE IF s[i] = x THEN i
    ELSE IndexOf(s, x, i + 1)

\* dict.get(key): the value of the entry with that key, or None
RECURSIVE DictGetFrom(_, _, _)
DictGetFrom(entries, key, i) ==
    IF i > Len(entries) THEN NoneV
    ELSE IF entries[i].s = key THEN entries[i].items[1]
    ELSE DictGetFrom(entries, key, i + 1)

DictGet(d, key) == DictGetFrom(d.items, key, 1)

DictHas(d, key) == \E i \in 1..Len(d.items) : d.items[i].s = key

DictKeys(d) == [i \in 1..Len(d.items) |-> d.items[i].s]

\* d[key] = v on an insertion-ordered dict
DictSet(d, key, v) ==
    IF DictHas(d, key)
    THEN Dict([i \in 1..Len(d.items) |->
                 IF d.items[i].s = key THEN Entry(key, v) ELSE d.items[i]])
    ELSE Dict(Append(d.items, Entry(key, v)))

\* ------------------------------------------------------------ declarations
\* A declared member (function parameter or record field): its label, its
\* annotation, its default (Missing when none was declared), whether it is
\* positional-only, and the description its docstring gives it ("" if none).
Member(label, annotation, default, posonly, desc) ==
    [label |-> label, annotation |-> annotation, default |-> default,
     posonly |-> posonly, desc |-> desc]

ClassDef(name, kind, members, doc) ==
    [name |-> name, kind |-> kind, members |-> members, doc |-> doc]

\* The classes of the test-suite that the declared target may refer to.
ColorEnum ==
    ClassDef("ColorEnum", "enum",
             <<Member("RED", Type("str"), Str("red"), FALSE, ""),
               Member("GREEN", Type("str"), Str("green"), FALSE, ""),
               Member("BLUE", Type("str"), Str("blue"), FALSE, "")>>, "")

HeroInfo ==
    ClassDef("HeroInfo", "typeddict",
             <<Member("name", Type("str"), Missing, FALSE, ""),
               Member("age", Optional(Type("int")), NoneV, FALSE, "")>>, "")

Model ==
    ClassDef("Model", "namedtuple",
             <<Member("models", Generic("set", <<ForwardRef("Model")>>), Missing,
                      FALSE, "set of models")>>, "Model.")

TargetName == "Tool"

\* a record that refers back to the declared target (class Peer: tool: Tool)
Peer ==
    ClassDef("Peer", "typeddict",
             <<Member("tool", Type(TargetName), Missing, FALSE, "")>>, "")

\* the names a forward reference can be evaluated to (the caller's namespace)
NamespaceNames == {TargetName, "ColorEnum", "HeroInfo", "Model", "Peer"}

ClassOf(name) ==
    CASE name = TargetName -> target
      [] name = "ColorEnum" -> ColorEnum
      [] name = "HeroInfo" -> HeroInfo
      [] name = "Model" -> Model
      [] name = "Peer" -> Peer
      [] OTHER -> ClassDef(name, "builtin", <<>>, "")

KindOf(t) == IF t.k = "type" THEN ClassOf(t.s).kind ELSE "value"

\* ------------------------------------------------------------ _types.py
_SUPPORTED_TYPE_MAP ==
    [x \in {"str", "int", "float", "bool", "set", "list", "dict", "Path",
            "NamedTuple", "TypedDict", "BaseModel", "Literal", "Enum"} |->
        CASE x = "str" -> "string"
          [] x = "int" -> "integer"
          [] x = "float" -> "number"
          [] x = "bool" -> "boolean"
          [] x \in {"set", "list"} -> "array"
          [] x \in {"dict", "NamedTuple", "TypedDict", "BaseModel"} -> "object"
          [] OTHER -> "string"]

InSupportedTypeMap(t) == t.k = "type" /\ t.s \in DOMAIN _SUPPORTED_TYPE_MAP

check_subclass(t, cls) ==
    /\ t.k = "type"
    /\ \/ t.s = cls
       \/ cls = "Enum" /\ KindOf(t) = "enum"
       \/ cls = "BaseModel" /\ KindOf(t) = "pydantic"

is_pydantic_model(t) == check_subclass(t, "BaseModel")

is_typeddict(t) == KindOf(t) = "typeddict"

is_namedtuple(t) == KindOf(t) = "namedtuple"

isfunction(t) == KindOf(t) = "function"

\* outcome of a call that yields an AnnotationInfo or raises
Info(base_type, args, is_optional) ==
    [exc |-> "", base_type |-> base_type, args |-> args, is_optional |-> is_optional]

InfoRaise(exc) ==
    [exc |-> exc, base_type |-> NoneV, args |-> <<>>, is_optional |-> FALSE]

\* outcome of a call that yields a value or raises
Ok(v) == [exc |-> "", val |-> v]

Raise(exc) == [exc |-> exc, val |-> NoneV]

resolve_annotation(a) ==
    IF a.k = "fwd"
    THEN IF a.s \in NamespaceNames THEN Ok(Type(a.s)) ELSE Raise("NameError")
    ELSE Ok(a)

\* a resolver that takes no origin for a union
no_union_type(t) == FALSE

is_union_type(t) == t = Type("Union")

\* _types.py:197-212: the literal validation, else the resolution of the args
FinishInfo(base_type, args, is_optional) ==
    IF base_type = Type("Literal")
    THEN LET arg_types == {args[i].k : i \in 1..Len(args)}
         IN IF Cardinality(arg_types) # 1
            THEN InfoRaise("UnsupportedTypeException")
            ELSE IF arg_types \cap {"str", "int", "float", "bool"} = {}
            THEN InfoRaise("UnsupportedTypeException")
            ELSE Info(base_type, args, is_optional)
    ELSE IF \E i \in 1..Len(args) : resolve_annotation(args[i]).exc # ""
    THEN InfoRaise("NameError")
    ELSE Info(base_type,
              [i \in 1..Len(args) |-> resolve_annotation(args[i]).val],
              is_optional)

RECURSIVE extract_annotation_info(_)

\* _types.py:192-195: the optional union adopts what its other arm resolves to
extract_optional(inner) ==
    IF inner.exc # "" THEN inner
    ELSE FinishInfo(inner.base_type, inner.args, TRUE)

\* _types.py:185-195
extract_origin(base_type, args) ==
    IF is_union_type(base_type)
    THEN IF Len(args) # 2 \/ Type("NoneType") \notin SeqToSet(args)
         THEN InfoRaise("UnsupportedTypeException")
         ELSE extract_optional(
                  extract_annotation_info(
                      args[IF IndexOf(args, Type("NoneType"), 1) = 1 THEN 2 ELSE 1]))
    ELSE FinishInfo(base_type, args, FALSE)

\* _types.py:182-183: t.get_origin(resolved) or resolved, t.get_args(resolved)
extract_resolved(r) ==
    IF r.exc # "" THEN InfoRaise(r.exc)
    ELSE IF r.val.k = "generic" THEN extract_origin(Type(r.val.s), r.val.items)
    ELSE extract_origin(r.val, <<>>)

extract_annotation_info(a) == extract_resolved(resolve_annotation(a))

\* ------------------------------------------------------------- marshal.py
Raise2(exc, label) == [exc |-> exc, val |-> Str(label)]

\* the attributes every dict subclass has: hasattr(<TypedDict>, label) is true
\* of them whatever the class body assigns
DictAttributes ==
    {"clear", "copy", "fromkeys", "get", "items", "keys", "pop", "popitem",
     "setdefault", "update", "values"}

\* marshal.py:153 / compile.py:196  lambda label: hasattr(__td, label)
typeddict_has_default(cls, m) == m.default # Missing \/ m.label \in DictAttributes

\* marshal.py:172 / compile.py:216  lambda label: label in __nt._field_defaults
namedtuple_has_default(cls, m) == m.default # Missing

has_default(cls, m) ==
    IF cls.kind = "typeddict" THEN typeddict_has_default(cls, m)
    ELSE namedtuple_has_default(cls, m)

\* marshal.py:73, 101, 135: the "required" flag of one member
RequiredFlag(cls, m, is_optional) ==
    CASE cls.kind = "function" -> ~is_optional /\ m.default = Missing
      [] cls.kind = "pydantic" -> ~is_optional /\ m.default = Missing
      [] OTHER -> ~(is_optional \/ has_default(cls, m))

\* a generator without the recursive-field check: no field is self-typed
NoRecursiveField(cls, info) == FALSE

\* marshal.py:92, 126 (and compile.py:126, 166): the recursive-field check
IsRecursiveField(cls, info) ==
    info.base_type = Type(cls.name) \/ Type(cls.name) \in SeqToSet(info.args)

\* marshal.py:36-51
marshal_parameters(properties, required_props) ==
    IF properties = <<>> THEN Dict(<<>>)
    ELSE Dict(<<Entry("type", Str("object")),
                Entry("properties", Dict(properties)),
                Entry("required", List(required_props))>>)

RECURSIVE marshal_annotation(_, _)
RECURSIVE generate_metadata(_, _, _, _, _)

\* marshal.py:67-68, 97-98, 131-132: the description of the member, if any
WithDescription(schema, m) ==
    IF m.desc # "" THEN DictSet(schema, "description", Str(m.desc)) ELSE schema

\* marshal.py:44  properties[label] = schema
AddProperty(properties, m, schema) ==
    DictSet(Dict(properties), m.label, WithDescription(schema, m)).items

\* marshal.py:45-46  if required: required_props.append(label)
AddRequired(required_props, cls, m, is_optional) ==
    IF RequiredFlag(cls, m, is_optional) THEN Append(required_props, Str(m.label))
    ELSE required_props

\* marshal.py:43-46: marshal_parameters takes the ParamMetadata of member i
collect_member(cls, i, properties, required_props, depth, is_optional, r) ==
    IF r.exc # "" THEN r
    ELSE generate_metadata(cls, i + 1,
                           AddProperty(properties, cls.members[i], r.val),
                           AddRequired(required_props, cls, cls.members[i], is_optional),
                           depth)

\* marshal.py:65-66, 91-96, 125-130: one member of the generator
generate_member(cls, i, properties, required_props, depth, annot_info) ==
    IF annot_info.exc # "" THEN Raise2(annot_info.exc, cls.members[i].label)
    ELSE IF cls.kind # "function" /\ IsRecursiveField(cls, annot_info)
    THEN Raise2("RecursiveParameterException", cls.members[i].label)
    ELSE collect_member(cls, i, properties, required_props, depth,
                        annot_info.is_optional, marshal_annotation(annot_info, depth))

\* marshal.py:54-136: the generators, consumed member by member by
\* marshal_parameters; i is the next member, properties and required_props
\* what marshal_parameters has collected so far.
generate_metadata(cls, i, properties, required_props, depth) ==
    IF i > Len(cls.members) THEN Ok(marshal_parameters(properties, required_props))
    ELSE generate_member(cls, i, properties, required_props, depth,
                         extract_annotation_info(cls.members[i].annotation))

\* member names that can be read once only: the first call uses them up
MemberNamesOnce(cls) ==
    IF pc = "declare" THEN [i \in 1..Len(cls.members) |-> Str(cls.members[i].label)]
    ELSE <<>>

MemberNames(cls) == [i \in 1..Len(cls.members) |-> Str(cls.members[i].label)]

\* marshal.py:193-196
array_schema(items) ==
    IF items.exc # "" THEN items
    ELSE Ok(Dict(<<Entry("type", Str("array")), Entry("items", items.val)>>))

marshal_items(arg_info, depth) ==
    IF arg_info.exc # "" THEN Raise(arg_info.exc)
    ELSE array_schema(marshal_annotation(arg_info, depth - 1))

\* a marshaller that maps whatever type it is given to a string fragment
marshal_any_type(_type, depth) == Ok(Dict(<<Entry("type", Str("string"))>>))

\* marshal.py:204-228
marshal_type(_type, depth) ==
    IF check_subclass(_type, "Path")
    THEN Ok(Dict(<<Entry("type", Str("string"))>>))
    ELSE IF check_subclass(_type, "Enum")
    THEN Ok(Dict(<<Entry("type", Str("string")),
                   Entry("enum", List(MemberNames(ClassOf(_type.s))))>>))
    ELSE IF InSupportedTypeMap(_type)
    THEN Ok(Dict(<<Entry("type", Str(_SUPPORTED_TYPE_MAP[_type.s]))>>))
    ELSE IF is_pydantic_model(_type) \/ is_typeddict(_type) \/ is_namedtuple(_type)
    THEN generate_metadata(ClassOf(_type.s), 1, <<>>, <<>>, depth - 1)
    ELSE Raise("UnsupportedTypeException")

\* a marshaller that looks at the base type only
marshal_base_type(info, depth) == marshal_type(info.base_type, depth)

\* marshal.py:177-228
marshal_annotation(info, depth) ==
    IF depth = 0 THEN Raise("RecursionError")
    ELSE IF info.args # <<>> /\ info.base_type \in {Type("list"), Type("set")}
    THEN marshal_items(extract_annotation_info(info.args[1]), depth)
    ELSE IF info.args # <<>> /\ info.base_type = Type("Literal")
    THEN IF info.args[1].k = "bool" THEN marshal_type(Type("bool"), depth)
         ELSE Ok(Dict(<<Entry("enum", List(info.args)),
                        Entry("type", Str(_SUPPORTED_TYPE_MAP[info.args[1].k]))>>))
    ELSE marshal_type(info.base_type, depth)

\* name or __obj.__name__ / description or ds.description
Truthy(v) == v # NoneV /\ v # Str("")

\* marshal.py:263-266
FnSchema(obj, name, description) ==
    <<Entry("name", IF Truthy(name) THEN name ELSE Str(obj.name))>>
      \o (IF Truthy(description) THEN <<Entry("description", description)>>
          ELSE IF obj.doc # "" THEN <<Entry("description", Str(obj.doc))>>
          ELSE <<>>)

\* an envelope that knows the key "parameters" only
tool_schema_parameters(obj, spec, name, description, params) ==
    IF params.exc # "" THEN params
    ELSE Ok(Dict(<<Entry("type", Str("function")),
                   Entry("function",
                         Dict(Append(FnSchema(obj, name, description),
                                     Entry("parameters", params.val))))>>))

\* marshal.py:268-273
tool_schema(obj, spec, name, description, params) ==
    IF params.exc # "" THEN params
    ELSE Ok(Dict(<<Entry("type", Str("function")),
                   Entry("function",
                         Dict(Append(FnSchema(obj, name, description),
                                     Entry(IF spec = "claude" THEN "input_schema"
                                           ELSE "parameters", params.val))))>>))

\* marshal.py:231-273
marshal_object(obj, spec, name, description) ==
    IF obj.kind \notin {"pydantic", "typeddict", "namedtuple", "function"}
    THEN Raise("ValueError")
    ELSE tool_schema(obj, spec, name, description,
                     generate_metadata(obj, 1, <<>>, <<>>, MaxDepth))

\* -------------------------------------------------- Python values (builtins)
\* int(str), float(str): the numerals the model's strings can spell
IntOfStr == [s \in {"1", "2", "5"} |-> s]

FloatOfStr ==
    [s \in {"1", "2", "5", "1.5"} |->
        CASE s = "1" -> "1.0" [] s = "2" -> "2.0" [] s = "5" -> "5.0" [] OTHER -> s]

\* int(float) truncates
IntOfFloat ==
    [s \in {"1.0", "2.0", "5.0", "1.5"} |->
        CASE s = "1.0" -> "1" [] s = "2.0" -> "2" [] s = "5.0" -> "5" [] OTHER -> "1"]

FloatOfInt ==
    [s \in {"0", "1", "2", "5"} |->
        CASE s = "0" -> "0.0" [] s = "1" -> "1.0" [] s = "2" -> "2.0" [] OTHER -> "5.0"]

\* isinstance(raw_value, e_type); bool is a subclass of int
isinstance(v, e_type) ==
    \/ v.k = e_type
    \/ e_type = "int" /\ v.k = "bool"

\* e_type(raw_value) for e_type in (str, float, int): the value, or the
\* exception the constructor raises
Construct(e_type, v) ==
    CASE e_type = "str" ->
           IF v.k \in {"int", "float"} THEN Ok(Str(v.s))
           ELSE IF v.k = "bool" THEN Ok(Str(v.s))
           ELSE Ok(Node("str", "repr", <<v>>))
      [] e_type = "int" ->
           IF v.k = "str"
           THEN IF v.s \in DOMAIN IntOfStr /\ v.items = <<>>
                THEN Ok(Int(IntOfStr[v.s])) ELSE Raise("ValueError")
           ELSE IF v.k = "float" THEN Ok(Int(IntOfFloat[v.s]))
           ELSE Raise("TypeError")
      [] OTHER ->
           IF v.k = "str"
           THEN IF v.s \in DOMAIN FloatOfStr /\ v.items = <<>>
                THEN Ok(Float(FloatOfStr[v.s])) ELSE Raise("ValueError")
           ELSE IF v.k = "int" THEN Ok(Float(FloatOfInt[v.s]))
           ELSE IF v.k = "bool"
           THEN Ok(Float(IF v.s = "True" THEN "1.0" ELSE "0.0"))
           ELSE Raise("TypeError")

\* Python ==: numbers compare by value across bool, int and float
PyNum(v) ==
    CASE v.k = "bool" -> IF v.s = "True" THEN "1.0" ELSE "0.0"
      [] v.k = "int" -> FloatOfInt[v.s]
      [] OTHER -> v.s

PyEq(a, b) ==
    IF a.k \in {"bool", "int", "float"} /\ b.k \in {"bool", "int", "float"}
    THEN PyNum(a) = PyNum(b)
    ELSE a = b

\* x in <list>
PyIn(x, seq) == \E i \in 1..Len(seq) : PyEq(x, seq[i])

\* set(<iterable>): duplicates removed (first occurrence kept)
RECURSIVE Dedup(_, _)
Dedup(seq, acc) ==
    IF seq = <<>> THEN acc
    ELSE Dedup(Tail(seq), IF PyIn(Head(seq), acc) THEN acc ELSE Append(acc, Head(seq)))

Hashable(v) == v.k \notin {"list", "dict", "set", "instance:typeddict", "instance:pydantic"}

\* json.loads: JsonText(v) is the JSON text that spells the value v; any other
\* string of the model is no JSON document
JsonText(v) == Node("str", "json", <<v>>)

json_loads(text) ==
    IF text.s = "json" /\ Len(text.items) = 1 THEN Ok(text.items[1])
    ELSE Raise("JSONDecodeError")

\* ------------------------------------------------------------- compile.py
\* compile.py:244-258  validate: the (possibly coerced) raw value, or the error
validate(e_type, raw_value) ==
    IF isinstance(raw_value, e_type) THEN Ok(raw_value)
    ELSE IF e_type \notin {"str", "float", "int"} THEN Raise("TypeMismatchException")
    ELSE LET c == Construct(e_type, raw_value)
         IN  IF c.exc = "ValueError" THEN Raise("TypeMismatchException") ELSE c

PathV(s) == Node("Path", s.s, s.items)

EnumMember(cls, name) == Node("member", name, <<Type(cls.name)>>)

\* positions of the members named name in cls._member_map_
HasEnumMember(cls, v) ==
    v.items = <<>> /\ \E i \in 1..Len(cls.members) : cls.members[i].label = v.s

RECURSIVE compile_value(_, _, _)
RECURSIVE compile_items(_, _, _, _)
RECURSIVE compile_fields(_, _, _, _, _)
RECURSIVE compile_parameters(_, _, _, _, _, _, _)

\* compile.py:273  the generator that cast(...) consumes, element by element
collect_item(arg_info, raw_items, acc, depth, r) ==
    IF r.exc # "" THEN r
    ELSE compile_items(arg_info, Tail(raw_items), Append(acc, r.val), depth)

compile_items(arg_info, raw_items, acc, depth) ==
    IF raw_items = <<>> THEN Ok(List(acc))
    ELSE collect_item(arg_info, raw_items, acc, depth,
                      compile_value(arg_info, Head(raw_items), depth))

\* compile.py:140, 179  __model(**fields) / __typed_obj(**fields); pydantic
\* validates what it is given: None is no value of a field that is not Optional
Construct_instance(cls, fields) ==
    IF /\ cls.kind = "pydantic"
       /\ \E i \in 1..Len(cls.members) :
             /\ fields[i].items[1] = NoneV
             /\ ~extract_annotation_info(cls.members[i].annotation).is_optional
    THEN Raise("ValidationError")
    ELSE Ok(Node(IF cls.kind = "pydantic" THEN "instance:pydantic"
                 ELSE IF cls.kind = "typeddict" THEN "instance:typeddict"
                 ELSE "instance:namedtuple", cls.name, fields))

\* compile.py:197, 217  get_default
get_default(cls, m) ==
    IF m.default # Missing THEN m.default
    ELSE IF cls.kind = "typeddict" /\ m.label \in DictAttributes
    THEN Node("method_descriptor", m.label, <<>>)
    ELSE NoneV

\* compile.py:131-132: the pydantic default replaces an absent value
PydanticValue(m, v) ==
    IF v = NoneV /\ m.default \notin {NoneV, Missing} THEN m.default ELSE v

\* compile.py:134, 172: is the field missing?
FieldMissing(cls, m, is_optional, v) ==
    IF cls.kind = "pydantic"
    THEN ~is_optional /\ PydanticValue(m, v) = NoneV /\ m.default = Missing
    ELSE ~is_optional /\ v = NoneV /\ ~has_default(cls, m)

\* compile.py:138, 177: what is stored in fields[label]
FieldValue(cls, m, v) ==
    IF cls.kind = "pydantic" THEN PydanticValue(m, v)
    ELSE IF v = NoneV THEN get_default(cls, m)
    ELSE v

\* compile.py:130-138, 171-177
collect_field(cls, arguments, i, fields, depth, is_optional, r) ==
    IF r.exc # "" THEN r
    ELSE IF FieldMissing(cls, cls.members[i], is_optional, r.val)
    THEN Raise2("RequiredParameterException", cls.members[i].label)
    ELSE compile_fields(cls, arguments, i + 1,
                        Append(fields, Entry(cls.members[i].label,
                                             FieldValue(cls, cls.members[i], r.val))),
                        depth)

\* compile.py:125-130, 165-171
compile_field(cls, arguments, i, fields, depth, annot_info) ==
    IF annot_info.exc # "" THEN Raise2(annot_info.exc, cls.members[i].label)
    ELSE IF IsRecursiveField(cls, annot_info)
    THEN Raise2("RecursiveParameterException", cls.members[i].label)
    ELSE IF arguments.k # "dict" THEN Raise("AttributeError")
    ELSE collect_field(cls, arguments, i, fields, depth, annot_info.is_optional,
                       compile_value(annot_info,
                                     DictGet(arguments, cls.members[i].label), depth))

\* compile.py:111-179  compile_pydantic_object / _compile_typed_object: the
\* loop over the fields from field i on, then the construction
compile_fields(cls, arguments, i, fields, depth) ==
    IF i > Len(cls.members) THEN Construct_instance(cls, fields)
    ELSE compile_field(cls, arguments, i, fields, depth,
                       extract_annotation_info(cls.members[i].annotation))

\* compile.py:90, 95-96: value = default when the compiled value is None
ParameterValue(m, v) ==
    IF v # NoneV THEN v
    ELSE IF m.default = Missing THEN NoneV
    ELSE m.default

\* a loop that leaves out a parameter whose value did not compile
skip_parameter(fn, arguments, pos_args, i, args, kwargs, depth, is_optional, r) ==
    IF r.exc # "" THEN compile_parameters(fn, arguments, pos_args, i + 1, args, kwargs, depth)
    ELSE compile_parameters(fn, arguments, pos_args, i + 1, args,
                            Append(kwargs, Entry(fn.members[i].label, r.val)), depth)

\* compile.py:94-106
collect_parameter(fn, arguments, pos_args, i, args, kwargs, depth, is_optional, r) ==
    IF r.exc # "" THEN r
    ELSE IF /\ ~is_optional
            /\ ParameterValue(fn.members[i], r.val) = NoneV
            /\ fn.members[i].default # NoneV
    THEN Raise2("RecursiveParameterException", fn.members[i].label)
    ELSE IF fn.members[i].posonly
    THEN compile_parameters(fn, arguments, pos_args, i + 1,
                            Append(args, ParameterValue(fn.members[i], r.val)),
                            kwargs, depth)
    ELSE compile_parameters(fn, arguments, pos_args, i + 1, args,
                            Append(kwargs, Entry(fn.members[i].label,
                                                 ParameterValue(fn.members[i], r.val))),
                            depth)

\* a loop body that looks a parameter up by name first
compile_parameter_by_name(fn, arguments, pos_args, i, args, kwargs, depth, annot_info) ==
    IF annot_info.exc # "" THEN Raise2(annot_info.exc, fn.members[i].label)
    ELSE collect_parameter(fn, arguments, pos_args, i, args, kwargs, depth,
                           annot_info.is_optional,
                           compile_value(annot_info,
                                         IF DictHas(arguments, fn.members[i].label)
                                         THEN DictGet(arguments, fn.members[i].label)
                                         ELSE IF i <= Len(pos_args) THEN pos_args[i]
                                         ELSE NoneV,
                                         depth))

\* compile.py:91-94
compile_parameter(fn, arguments, pos_args, i, args, kwargs, depth, annot_info) ==
    IF annot_info.exc # "" THEN Raise2(annot_info.exc, fn.members[i].label)
    ELSE collect_parameter(fn, arguments, pos_args, i, args, kwargs, depth,
                           annot_info.is_optional,
                           compile_value(annot_info,
                                         IF i <= Len(pos_args) THEN pos_args[i]
                                         ELSE DictGet(arguments, fn.members[i].label),
                                         depth))

\* _types.py:245-255  a coroutine function: the declarations made with
\* `async def` carry the behaviour of their body in the field `body`
is_async(fn) == "body" \in DOMAIN fn

\* what the body of a coroutine function does once a loop starts it
Bodies == {"returns", "raises RuntimeError", "raises ValueError"}

\* the event loop of the calling thread: none installed and get_event_loop
\* raises ("none"), none installed and get_event_loop creates and installs one
\* ("implicit"), an idle loop installed ("open"), the loop that is running
\* the caller ("running"), a closed loop installed ("closed")
LoopStates == {"none", "implicit", "open", "running", "closed"}

RuntimeError(message) == [exc |-> "RuntimeError", val |-> Str(message)]

\* the outcome of run_async together with the loop it leaves installed and
\* the loops on which the body was started
Scheduled(outcome, installed, ran) ==
    [exc |-> outcome.exc, val |-> outcome.val,
     loop |-> [installed |-> installed, ran |-> ran]]

\* the coroutine runs on a loop: it returns the value or raises
Await(fn, value) ==
    IF fn.body = "returns" THEN Ok(value)
    ELSE IF fn.body = "raises RuntimeError" THEN RuntimeError("body")
    ELSE Raise("ValueError")

\* asyncio.run without the check for a running loop
asyncio_run_nested(fn, value, installed, ran) ==
    IF ran # <<>>
    THEN Scheduled(RuntimeError("cannot reuse already awaited coroutine"),
                   "none", ran)
    ELSE Scheduled(Await(fn, value), "none", <<"fresh">>)

\* compile.py:28  asyncio.run(coroutine): refuses under a running loop, else
\* makes a new loop, runs the coroutine on it, closes it and leaves no loop
\* installed; a coroutine that was already awaited cannot be started again
asyncio_run(fn, value, installed, ran) ==
    IF installed = "running"
    THEN Scheduled(RuntimeError("asyncio.run() cannot be called from a running event loop"),
                   installed, ran)
    ELSE asyncio_run_nested(fn, value, installed, ran)

\* compile.py:29-38  the error of asyncio.run under a running loop is replaced
\* by the message of this library, every other RuntimeError is raised again
reraise(r) ==
    IF r.exc = "RuntimeError"
       /\ r.val = Str("asyncio.run() cannot be called from a running event loop")
    THEN [r EXCEPT !.val = Str("The event loop is already running")]
    ELSE r

\* compile.py:24-25  loop.run_until_complete(coroutine) on the loop that
\* get_event_loop gave; a RuntimeError (running loop, closed loop, or one
\* raised by the body) leads to compile.py:26-38
run_until_complete(fn, value, installed, which) ==
    IF installed \in {"running", "closed"}
    THEN reraise(asyncio_run(fn, value, installed, <<>>))
    ELSE IF fn.body = "raises RuntimeError"
    THEN reraise(asyncio_run(fn, value, installed, <<which>>))
    ELSE Scheduled(Await(fn, value), installed, <<which>>)

\* compile.py:18-39  run_async(coroutine) under the loop state `installed`
run_async(fn, value, installed) ==
    IF installed = "none"
    THEN reraise(asyncio_run(fn, value, installed, <<>>))
    ELSE IF installed = "implicit"
    THEN run_until_complete(fn, value, "open", "fresh")
    ELSE run_until_complete(fn, value, installed, "installed")

\* compile.py:108  the call of the function, through run_async when it is a
\* coroutine function
invoke(fn, value) ==
    IF is_async(fn) THEN run_async(fn, value, loop.installed) ELSE Ok(value)

\* compile.py:88-108  the loop over the parameters from parameter i on, then
\* the call of the function with what was collected
compile_parameters(fn, arguments, pos_args, i, args, kwargs, depth) ==
    IF i > Len(fn.members)
    THEN invoke(fn, Node("return", fn.name, <<List(args), Dict(kwargs)>>))
    ELSE compile_parameter(fn, arguments, pos_args, i, args, kwargs, depth,
                           extract_annotation_info(fn.members[i].annotation))

\* compile.py:85-87  pos_args = arguments.pop("*args", []), then the parameters
compile_function_object(fn, arguments, depth) ==
    IF arguments.k = "list" THEN Raise("TypeError")
    ELSE IF arguments.k # "dict" THEN Raise("AttributeError")
    ELSE compile_parameters(
             fn, Dict(SelectSeq(arguments.items, LAMBDA e : e.s # "*args")),
             IF DictHas(arguments, "*args") THEN DictGet(arguments, "*args").items
             ELSE <<>>,
             1, <<>>, <<>>, depth)

\* a literal case without the membership test
compile_any_literal(args, v) == v

\* compile.py:262-267
compile_literal(args, v) ==
    IF v.exc # "" THEN v
    ELSE IF ~PyIn(v.val, args) THEN Raise("InvalidArgumentException")
    ELSE v

\* compile.py:271, 273  cast(...)
cast(_type, items) ==
    IF items.exc # "" THEN items
    ELSE IF _type = Type("list") THEN items
    ELSE IF \E i \in 1..Len(items.val.items) : ~Hashable(items.val.items[i])
    THEN Raise("TypeError")
    ELSE Ok(Node("set", "", Dedup(items.val.items, <<>>)))

\* compile.py:272-273
compile_sequence(_type, raw_value, depth, arg_info) ==
    IF arg_info.exc # "" THEN Raise(arg_info.exc)
    ELSE cast(_type, compile_items(arg_info, raw_value.items, <<>>, depth - 1))

\* compile.py:276-277
compile_path(v) == IF v.exc # "" THEN v ELSE Ok(PathV(v.val))

\* compile.py:280-285
compile_enum(cls, v) ==
    IF v.exc # "" THEN v
    ELSE IF ~HasEnumMember(cls, v.val) THEN Raise("InvalidArgumentException")
    ELSE Ok(EnumMember(cls, v.val.s))

\* compile.py:222-306
compile_value(info, raw_value, depth) ==
    IF raw_value = NoneV THEN Ok(NoneV)
    ELSE IF depth = 0 THEN Raise("RecursionError")
    ELSE IF info.args # <<>> /\ info.base_type = Type("Literal")
    THEN compile_literal(info.args, validate(info.args[1].k, raw_value))
    ELSE IF info.args # <<>> /\ info.base_type \in {Type("list"), Type("set")}
    THEN IF ~isinstance(raw_value, "list") THEN validate("list", raw_value)
         ELSE compile_sequence(info.base_type, raw_value, depth,
                               extract_annotation_info(info.args[1]))
    ELSE IF check_subclass(info.base_type, "Path")
    THEN compile_path(validate("str", raw_value))
    ELSE IF check_subclass(info.base_type, "Enum")
    THEN compile_enum(ClassOf(info.base_type.s), validate("str", raw_value))
    ELSE IF InSupportedTypeMap(info.base_type)
    THEN validate(info.base_type.s, raw_value)
    ELSE IF \/ is_pydantic_model(info.base_type)
            \/ is_typeddict(info.base_type)
            \/ is_namedtuple(info.base_type)
    THEN IF ~isinstance(raw_value, "dict") THEN validate("dict", raw_value)
         ELSE compile_fields(ClassOf(info.base_type.s), raw_value, 1, <<>>, depth - 1)
    ELSE Raise("UnsupportedTypeException")

\* compile.py:327-338
compile_dispatch(obj, parsed) ==
    IF parsed.exc # "" THEN Raise("ValueError")
    ELSE IF obj.kind \in {"pydantic", "typeddict", "namedtuple"}
    THEN compile_fields(obj, parsed.val, 1, <<>>, MaxDepth)
    ELSE IF obj.kind = "function"
    THEN compile_function_object(obj, parsed.val, MaxDepth)
    ELSE Raise("ValueError")

\* compile.py:309-338
compile_object(obj, arguments) ==
    compile_dispatch(obj, IF arguments.k = "str" THEN json_loads(arguments)
                          ELSE Ok(arguments))

\* compile.py:86  arguments.pop("*args", []) takes the entry out of the mapping
\* the caller handed over; text is parsed into a mapping of its own
ArgumentsAfter(obj, arguments) ==
    IF obj.kind = "function" /\ arguments.k = "dict"
    THEN Dict(SelectSeq(arguments.items, LAMBDA e : e.s # "*args"))
    ELSE arguments

\* ------------------------------------------------------------ the inputs
Kinds == {"function", "pydantic", "typeddict", "namedtuple"}

\* the members a declaration can hold
MemberTemplates ==
    {Member("name", Type("str"), Missing, FALSE, "The name"),
     Member("age", Optional(Type("int")), Missing, FALSE, ""),
     Member("limit", Type("int"), Int("5"), FALSE, ""),
     Member("role", Generic("Literal", <<Str("admin"), Str("tester")>>),
            Str("tester"), FALSE, ""),
     Member("level", Generic("Literal", <<Int("1"), Int("2")>>), Missing, FALSE, ""),
     Member("color", Type("ColorEnum"), Missing, FALSE, "The color enum"),
     Member("data", Type("bytes"), Missing, FALSE, ""),
     Member("chunks", Generic("list", <<Type("bytes")>>), Missing, FALSE, ""),
     Member("parent", Optional(Type(TargetName)), Missing, FALSE, ""),
     Member("models", Generic("set", <<ForwardRef(TargetName)>>), Missing, FALSE, ""),
     Member("info", Type("HeroInfo"), Missing, FALSE, ""),
     Member("items", Generic("list", <<Type("str")>>), Missing, FALSE, ""),
     Member("keys", Optional(Type("str")), Missing, FALSE, ""),
     Member("either",
            Generic("list", <<Generic("Union", <<Type("int"), Type("str")>>)>>),
            Missing, FALSE, ""),
     Member("mixed",
            Generic("Union", <<Type("int"), Type("str"), Type("NoneType")>>),
            Missing, FALSE, "")}

Labels(members) == {members[i].label : i \in 1..Len(members)}

\* what Python accepts as a declaration: labels are distinct; in a function
\* signature and in a NamedTuple body no member without a default follows one
\* with a default; a function is no class, so no annotation can name it
CanDeclare(cls, m) ==
    /\ m.label \notin Labels(cls.members)
    /\ cls.kind \in {"function", "namedtuple"} /\ m.default = Missing
         => \A i \in 1..Len(cls.members) : cls.members[i].default = Missing
    /\ cls.kind = "function"
         => m.annotation \notin {Optional(Type(TargetName)),
                                 Generic("set", <<ForwardRef(TargetName)>>)}

\* the raw values offered for a member, by its annotation
RawChoices(a) ==
    CASE a = Type("str") -> {Str("Alice"), Int("5")}
      [] a = Optional(Type("int")) -> {Str("5"), Str("abc")}
      [] a = Type("int") -> {Int("2"), Float("1.5")}
      [] a = Generic("Literal", <<Str("admin"), Str("tester")>>) ->
           {Str("admin"), Str("guest")}
      [] a = Generic("Literal", <<Int("1"), Int("2")>>) ->
           {Str("1"), Int("5"), Str("abc"), Float("1.5")}
      [] a = Type("ColorEnum") -> {Str("RED"), Str("YELLOW"), Int("5")}
      [] a = Type("bytes") -> {Str("abc")}
      [] a = Generic("list", <<Type("bytes")>>) -> {List(<<Str("abc")>>), List(<<>>)}
      [] a = Type("HeroInfo") ->
           {Dict(<<Entry("name", Str("Alice"))>>), Dict(<<Entry("age", Int("5"))>>)}
      [] a = Generic("list", <<Type("str")>>) -> {List(<<Str("a"), Int("5")>>)}
      [] a = Optional(Type("str")) -> {Str("k")}
      [] a = Generic("list", <<Generic("Union", <<Type("int"), Type("str")>>)>>) ->
           {List(<<Int("1")>>), List(<<>>)}
      [] a = Generic("Union", <<Type("int"), Type("str"), Type("NoneType")>>) ->
           {Str("a")}
      [] OTHER -> {Dict(<<>>)}

\* every mapping that gives each declared member one of its raw values or
\* leaves it out, its keys in declaration order
RECURSIVE ArgumentMaps(_, _)
ArgumentMaps(members, i) ==
    IF i > Len(members) THEN {<<>>}
    ELSE LET rest == ArgumentMaps(members, i + 1)
             m == members[i]
         IN  rest \cup {<<Entry(m.label, v)>> \o r :
                           v \in RawChoices(m.annotation), r \in rest}

\* the mappings a call expression gives: the first member positionally, under
\* "*args", the others by keyword or left out
PositionalMaps(members) ==
    IF members = <<>> THEN {<<Entry("*args", List(<<>>))>>}
    ELSE {<<Entry("*args", List(<<v>>))>> \o r :
             v \in RawChoices(members[1].annotation), r \in ArgumentMaps(members, 2)}

\* JSON texts: an object, values that are no object, and text that is no JSON
JsonTexts(members) ==
    {JsonText(Dict(a)) : a \in {x \in ArgumentMaps(members, 1) : Len(x) = Len(members)}}
      \cup {JsonText(List(<<Int("1")>>)), JsonText(Int("5")), JsonText(Str("abc")),
            JsonText(NoneV), Str("{bad"), Str("")}

\* the annotations found in a, a itself included (the places the resolver
\* can be applied to)
RECURSIVE SubAnnotations(_)
SubAnnotations(a) ==
    {a} \cup (IF a.k = "generic" /\ a.s # "Literal"
              THEN UNION {SubAnnotations(a.items[i]) : i \in 1..Len(a.items)}
              ELSE {})

Specs == {"base", "claude", "openai"}

Names == {NoneV, Str(""), Str("get_tool")}

Descriptions == {NoneV, Str("About the tool.")}

NoCall ==
    [op |-> "none", spec |-> "", name |-> NoneV, description |-> NoneV,
     arguments |-> NoneV, annotation |-> NoneV, installed |-> "none",
     expression |-> NoneV, registry |-> 0, obj |-> NoneV, objs |-> <<>>,
     other |-> 0, step |-> 0, raw_value |-> NoneV]

\* the docstring summary of the target: the functions and pydantic models of
\* the test-suite carry a docstring, its TypedDicts and NamedTuples none
DocOf(kind) == IF kind \in {"function", "pydantic"} THEN "Summary line." ELSE ""

\* ------------------------------------------------------------- the machine
Init ==
    /\ pc = "declare"
    /\ target \in {ClassDef(TargetName, k, <<>>, DocOf(k)) : k \in Kinds \cup {"object"}}
    /\ call = NoCall
    /\ result = Ok(NoneV)
    /\ mapping = NoneV
    /\ loop = [installed |-> "none", ran |-> <<>>]
    /\ registry = <<>>

\* the class body or signature is executed: one more member is declared
DeclareMember(m) ==
    /\ pc = "declare"
    /\ target.kind \in Kinds
    /\ Len(target.members) < MaxMembers
    /\ CanDeclare(target, m)
    /\ target' = [target EXCEPT !.members = Append(@, m)]
    /\ UNCHANGED <<pc, call, result, mapping, loop, registry>>

CallMarshalObject(spec, name, description) ==
    /\ pc = "declare"
    /\ pc' = "returned"
    /\ call' = [NoCall EXCEPT !.op = "marshal_object", !.spec = spec,
                              !.name = name, !.description = description]
    /\ result' = marshal_object(target, spec, name, description)
    /\ UNCHANGED <<target, mapping, loop, registry>>

\* the outcome r of a call becomes the result; a call that went through
\* run_async leaves the loop state that run_async left
Returns(r) ==
    /\ result' = [exc |-> r.exc, val |-> r.val]
    /\ loop' = IF "loop" \in DOMAIN r THEN r.loop ELSE loop

CallCompileObject(arguments) ==
    /\ pc = "declare"
    /\ pc' = "returned"
    /\ call' = [NoCall EXCEPT !.op = "compile_object", !.arguments = arguments,
                              !.installed = loop.installed]
    /\ Returns(compile_object(target, arguments))
    /\ mapping' = ArgumentsAfter(target, arguments)
    /\ UNCHANGED <<target, registry>>

InfoValue(info) ==
    IF info.exc # "" THEN Raise(info.exc)
    ELSE Ok(Node("AnnotationInfo", IF info.is_optional THEN "True" ELSE "False",
                 <<info.base_type, List(info.args)>>))

\* the resolver applied to the annotation of a declared member
CallExtractAnnotationInfo(annotation) ==
    /\ pc = "declare"
    /\ pc' = "returned"
    /\ call' = [NoCall EXCEPT !.op = "extract_annotation_info",
                              !.annotation = annotation]
    /\ result' = InfoValue(extract_annotation_info(annotation))
    /\ UNCHANGED <<target, mapping, loop, registry>>

Next ==
    \/ \E m \in MemberTemplates : DeclareMember(m)
    \/ \E spec \in Specs, name \in Names, description \in Descriptions :
          CallMarshalObject(spec, name, description)
    \/ \E a \in ArgumentMaps(target.members, 1) : CallCompileObject(Dict(a))
    \/ \E a \in PositionalMaps(target.members) :
          target.kind = "function" /\ CallCompileObject(Dict(a))
    \/ \E text \in JsonTexts(target.members) : CallCompileObject(text)
    \/ \E i \in 1..Len(target.members) :
          \E a \in SubAnnotations(target.members[i].annotation) :
             CallExtractAnnotationInfo(a)

Spec == Init /\ [][Next]_vars

\* ------------------------------------------- the machine: coroutine targets
\* a function declared with `async def`
AsyncDef(name, members, doc, body) ==
    [name |-> name, kind |-> "function", members |-> members, doc |-> doc,
     body |-> body]

\* the parameters declared on the coroutine functions
ParameterTemplates ==
    {m \in MemberTemplates : m.label \in {"name", "age", "limit"}}

InitAsync ==
    /\ pc = "declare"
    /\ target \in {AsyncDef(TargetName, <<>>, DocOf("function"), b) : b \in Bodies}
    /\ call = NoCall
    /\ result = Ok(NoneV)
    /\ mapping = NoneV
    /\ loop \in {[installed |-> i, ran |-> <<>>] : i \in LoopStates}
    /\ registry = <<>>

NextAsync ==
    \/ \E m \in ParameterTemplates : DeclareMember(m)
    \/ \E a \in ArgumentMaps(target.members, 1) : CallCompileObject(Dict(a))
    \/ \E a \in PositionalMaps(target.members) : CallCompileObject(Dict(a))

SpecAsync == InitAsync /\ [][NextAsync]_vars

\* ------------------------------------------- compile.py: parse_expression
\* the syntax trees of the ast module, as nodes: statements Expr, Assign and
\* Return carry a value, Import and Pass carry none
Constant(v) == Node("Constant", "", <<v>>)
Name(id) == Node("Name", id, <<>>)
Attribute(value, attr) == Node("Attribute", attr, <<value>>)
ListNode(elts) == Node("List", "", elts)
keyword(arg, value) == Node("keyword", arg, <<value>>)
Call(func, args, keywords) ==
    Node("Call", "", <<func, Node("args", "", args), Node("keywords", "", keywords)>>)
Statement(kind, value) == Node(kind, "", <<value>>)
Import == Node("Import", "os", <<>>)
Pass == Node("Pass", "", <<>>)

\* SourceText(body) is the Python source that spells the statements of body
\* (blank text when body is empty); the empty string has no statement
\* either; any other string of the model is no Python source
SourceText(body) == Node("str", "python", body)

ast_parse(text) ==
    IF text.s = "python" THEN Ok(Node("Module", "", text.items))
    ELSE IF text = Str("") THEN Ok(Node("Module", "", <<>>))
    ELSE Raise("SyntaxError")

\* ast.literal_eval: constants and displays of them; every other node (a
\* name, a call, an attribute) is malformed, a ValueError
RECURSIVE literal_eval(_)
RECURSIVE literal_eval_elts(_, _, _)

collect_elt(elts, i, acc, r) ==
    IF r.exc # "" THEN r ELSE literal_eval_elts(elts, i + 1, Append(acc, r.val))

literal_eval_elts(elts, i, acc) ==
    IF i > Len(elts) THEN Ok(List(acc))
    ELSE collect_elt(elts, i, acc, literal_eval(elts[i]))

literal_eval(node) ==
    IF node.k = "Constant" THEN Ok(node.items[1])
    ELSE IF node.k = "List" THEN literal_eval_elts(node.items, 1, <<>>)
    ELSE Raise("ValueError")

\* compile.py:61-62  a NameError of literal_eval becomes a ValueError
except_NameError(r) == IF r.exc = "NameError" THEN Raise("ValueError") ELSE r

\* compile.py:58  node.func.id and the mapping of the arguments: a callee
\* that is no Name has no attribute id
call_metadata(node, args, kwargs) ==
    IF node.items[1].k # "Name" THEN Raise("AttributeError")
    ELSE Ok(Node("tuple", "", <<Str(node.items[1].s),
                                Dict(<<Entry("*args", List(args))>> \o kwargs)>>))

RECURSIVE eval_ast_node(_)
RECURSIVE eval_args(_, _, _)
RECURSIVE eval_keywords(_, _, _, _)

collect_keyword(node, i, args, kwargs, r) ==
    IF r.exc # "" THEN r
    ELSE eval_keywords(node, i + 1, args,
                       Append(kwargs, Entry(node.items[3].items[i].s, r.val)))

\* compile.py:56-57  the keywords of the call, from keyword i on
eval_keywords(node, i, args, kwargs) ==
    IF i > Len(node.items[3].items) THEN call_metadata(node, args, kwargs)
    ELSE collect_keyword(node, i, args, kwargs,
                         eval_ast_node(node.items[3].items[i].items[1]))

collect_arg(node, i, args, r) ==
    IF r.exc # "" THEN r ELSE eval_args(node, i + 1, Append(args, r.val))

\* compile.py:54-55  the positional arguments of the call, from argument i on
eval_args(node, i, args) ==
    IF i > Len(node.items[2].items) THEN eval_keywords(node, 1, args, <<>>)
    ELSE collect_arg(node, i, args, eval_ast_node(node.items[2].items[i]))

\* compile.py:51-62  eval_ast_node: a Call node gives (name, arguments), every
\* other node goes to literal_eval
eval_ast_node(node) ==
    IF node.k = "Call" THEN eval_args(node, 1, <<>>)
    ELSE except_NameError(literal_eval(node))

\* compile.py:68-70
call_signature(call_node) ==
    IF call_node.k # "Call" THEN Raise("ValueError") ELSE eval_ast_node(call_node)

\* compile.py:65  .body[0].value: no statement is an IndexError, a statement
\* without a value an AttributeError
first_value(module) ==
    IF module.items = <<>> THEN Raise("IndexError")
    ELSE IF module.items[1].k \notin {"Expr", "Assign", "Return"}
    THEN Raise("AttributeError")
    ELSE call_signature(module.items[1].items[1])

\* compile.py:64-67  only the SyntaxError of ast.parse is caught
parsed_module(r) ==
    IF r.exc = "SyntaxError" THEN Raise("ValueError") ELSE first_value(r.val)

\* compile.py:42-70
parse_expression(expression) == parsed_module(ast_parse(expression))

\* --------------------------------------- the machine: call expressions
MaxArguments == 1

\* the sequences over S of length at most n
RECURSIVE SeqsUpTo(_, _)
SeqsUpTo(S, n) ==
    IF n = 0 THEN {<<>>}
    ELSE {<<>>} \cup {<<x>> \o r : x \in S, r \in SeqsUpTo(S, n - 1)}

InnerCalls ==
    {Call(Name("g"), <<Constant(Int("1"))>>, <<>>),
     Call(Name("g"), <<>>, <<keyword("b", Constant(Int("2")))>>),
     Call(Attribute(Name("a"), "b"), <<Constant(Int("1"))>>, <<>>)}

ArgumentExprs ==
    {Constant(Int("1")), Constant(Str("a")), Name("x"),
     ListNode(<<Constant(Int("1"))>>), ListNode(<<Name("x")>>)}
      \cup InnerCalls \cup {ListNode(<<c>>) : c \in InnerCalls}

KeywordExprs ==
    {Constant(Int("1")), Name("x"), Call(Name("g"), <<Constant(Int("1"))>>, <<>>)}

KeywordNames == <<"a", "b", "c">>

RECURSIVE Keywords(_, _)
Keywords(i, n) ==
    IF n = 0 THEN {<<>>}
    ELSE {<<>>} \cup {<<keyword(KeywordNames[i], v)>> \o r :
                        v \in KeywordExprs, r \in Keywords(i + 1, n - 1)}

Callees == {Name("f"), Attribute(Name("a"), "b"), Call(Name("f"), <<>>, <<>>)}

CallExprs ==
    {Call(f, a, k) : f \in Callees, a \in SeqsUpTo(ArgumentExprs, MaxArguments),
                     k \in Keywords(1, MaxArguments)}

OtherExprs == {Name("x"), Constant(Int("1")), ListNode(<<Constant(Int("1"))>>)}

Second == Statement("Expr", Call(Name("g"), <<Constant(Int("2"))>>, <<>>))

\* the texts given to parse_expression: one call expression, a call followed
\* by a further statement, an expression that is no call, an assignment or
\* return of a call, statements without a value, no statement, no Python
Expressions ==
    {SourceText(<<Statement("Expr", c)>>) : c \in CallExprs \cup OtherExprs}
      \cup {SourceText(<<Statement("Expr", c), Second>>) : c \in CallExprs}
      \cup {SourceText(<<Statement(kind, c)>>) :
               kind \in {"Assign", "Return"},
               c \in {x \in CallExprs : x.items[3].items = <<>>} \cup OtherExprs}
      \cup {SourceText(<<Import>>), SourceText(<<Pass>>),
            SourceText(<<Import, Second>>), SourceText(<<>>),
            Str(""), Str("f("), Str("f(a=1, a=2)")}

InitExpression ==
    /\ pc = "declare"
    /\ target = ClassDef(TargetName, "object", <<>>, "")
    /\ call \in {[NoCall EXCEPT !.expression = e] : e \in Expressions}
    /\ result = Ok(NoneV)
    /\ mapping = NoneV
    /\ loop = [installed |-> "none", ran |-> <<>>]
    /\ registry = <<>>

CallParseExpression ==
    /\ pc = "declare"
    /\ pc' = "returned"
    /\ call' = [call EXCEPT !.op = "parse_expression"]
    /\ result' = parse_expression(call.expression)
    /\ UNCHANGED <<target, mapping, loop, registry>>

NextExpression == CallParseExpression

SpecExpression == InitExpression /\ [][NextExpression]_vars

\* ------------------------------------------ the machine: literal members
MaxLiterals == 2

LiteralValues ==
    {Str("admin"), Str("tester"), Int("1"), Int("2"), Float("1.5"), Float("2.5"),
     Bool("True"), Bool("False")}

\* Literal[...] of one or more values (typing drops a repeated value), bare
\* or as the arm of an optional
LiteralAnnotations ==
    {Generic("Literal", v) :
        v \in {x \in SeqsUpTo(LiteralValues, MaxLiterals) :
                  x # <<>> /\ Cardinality(SeqToSet(x)) = Len(x)}}

\* marshal.py:65-66  the resolved annotation of a member goes to
\* marshal_annotation
marshal_resolved(annot_info) ==
    IF annot_info.exc # "" THEN Raise(annot_info.exc)
    ELSE marshal_annotation(annot_info, MaxDepth)

InitLiteral ==
    /\ pc = "declare"
    /\ target = ClassDef(TargetName, "object", <<>>, "")
    /\ call \in {[NoCall EXCEPT !.annotation = a] :
                   a \in LiteralAnnotations \cup {Optional(x) : x \in LiteralAnnotations}}
    /\ result = Ok(NoneV)
    /\ mapping = NoneV
    /\ loop = [installed |-> "none", ran |-> <<>>]
    /\ registry = <<>>

CallMarshalAnnotation ==
    /\ pc = "declare"
    /\ pc' = "returned"
    /\ call' = [call EXCEPT !.op = "marshal_annotation"]
    /\ result' = marshal_resolved(extract_annotation_info(call.annotation))
    /\ UNCHANGED <<target, mapping, loop, registry>>

NextLiteral == CallMarshalAnnotation

SpecLiteral == InitLiteral /\ [][NextLiteral]_vars

\* ------------------------------------- the machine: records with cycles
\* the fields of records that reach their own type: directly inside a set,
\* through two container levels, and through a second record
CycleTemplates ==
    {Member("name", Type("str"), Missing, FALSE, ""),
     Member("info", Type("HeroInfo"), Missing, FALSE, ""),
     Member("models", Generic("set", <<ForwardRef(TargetName)>>), Missing, FALSE, ""),
     Member("nested",
            Generic("list", <<Generic("list", <<ForwardRef(TargetName)>>)>>),
            Missing, FALSE, ""),
     Member("peer", ForwardRef("Peer"), Missing, FALSE, ""),
     Member("peers", Optional(Generic("list", <<Type("Peer")>>)), NoneV, FALSE, "")}

InitCycle ==
    /\ pc = "declare"
    /\ target \in {ClassDef(TargetName, k, <<>>, DocOf(k)) :
                     k \in {"pydantic", "typeddict", "namedtuple"}}
    /\ call = NoCall
    /\ result = Ok(NoneV)
    /\ mapping = NoneV
    /\ loop = [installed |-> "none", ran |-> <<>>]
    /\ registry = <<>>

\* the class body is executed: one more field is declared
DeclareField(m) ==
    /\ pc = "declare"
    /\ Len(target.members) < MaxMembers
    /\ CanDeclare(target, m)
    /\ target' = [target EXCEPT !.members = Append(@, m)]
    /\ UNCHANGED <<pc, call, result, mapping, loop, registry>>

NextCycle ==
    \/ \E m \in CycleTemplates : DeclareField(m)
    \/ \E spec \in Specs, name \in Names, description \in Descriptions :
         CallMarshalObject(spec, name, description)

SpecCycle == InitCycle /\ [][NextCycle]_vars

\* ------------------------------ the machine: calls with positional values
\* the parameters of a signature, positional-only (before the "/") or not
SignatureTemplates ==
    {Member(m.label, m.annotation, m.default, po, m.desc) :
        m \in ParameterTemplates, po \in BOOLEAN}

\* a signature is executed: one more parameter is declared; positional-only
\* parameters come first
DeclareParameter(m) ==
    /\ m.posonly => \A i \in 1..Len(target.members) : target.members[i].posonly
    /\ DeclareMember(m)

\* the positional values of a call: one for each of the first n parameters
RECURSIVE PositionalValues(_, _)
PositionalValues(members, n) ==
    IF n = 0 THEN {<<>>}
    ELSE {Append(p, v) : p \in PositionalValues(members, n - 1),
                         v \in RawChoices(members[n].annotation)}

\* the mappings a call expression gives: positional values under "*args"
\* beside keyword entries, also for a parameter that has a positional value
MixedMaps(members) ==
    {<<Entry("*args", List(p))>> \o r :
        p \in UNION {PositionalValues(members, n) : n \in 0..Len(members)},
        r \in ArgumentMaps(members, 1)}

InitSignature ==
    /\ pc = "declare"
    /\ target = ClassDef(TargetName, "function", <<>>, DocOf("function"))
    /\ call = NoCall
    /\ result = Ok(NoneV)
    /\ mapping = NoneV
    /\ loop = [installed |-> "none", ran |-> <<>>]
    /\ registry = <<>>

NextSignature ==
    \/ \E m \in SignatureTemplates : DeclareParameter(m)
    \/ \E a \in MixedMaps(target.members) : CallCompileObject(Dict(a))

SpecSignature == InitSignature /\ [][NextSignature]_vars

\* -------------------------------------------- the machine: member values
MaxItems == 2

\* the annotations of a member: the primitives, Path, an Enum, lists and sets
\* with an element type
ValueAnnotations ==
    {Type(x) : x \in {"str", "int", "float", "bool", "list", "dict", "set",
                      "Path", "ColorEnum"}}
      \cup {Generic(c, <<e>>) :
               c \in {"list", "set"}, e \in {Type("int"), Type("str"), Type("ColorEnum")}}
      \cup {Generic("set", <<Generic("list", <<Type("str")>>)>>)}

ScalarValues == {Str("5"), Str("abc"), Str("RED"), Int("5"), Float("1.5")}

\* the raw values JSON or a call expression can give
RawValues ==
    ScalarValues \cup {Bool("True"), Dict(<<>>)}
      \cup {List(x) : x \in SeqsUpTo(ScalarValues, MaxItems)}
      \cup {List(<<List(<<Str("abc")>>)>>), List(<<Str("5"), List(<<>>)>>)}

\* compile.py:92-93  the resolved annotation of a member and its raw value
\* go to compile_value
compile_resolved(annot_info, raw_value) ==
    IF annot_info.exc # "" THEN Raise(annot_info.exc)
    ELSE compile_value(annot_info, raw_value, MaxDepth)

InitValue ==
    /\ pc = "declare"
    /\ target = ClassDef(TargetName, "object", <<>>, "")
    /\ call \in {[NoCall EXCEPT !.annotation = a, !.raw_value = v] :
                   a \in ValueAnnotations, v \in RawValues}
    /\ result = Ok(NoneV)
    /\ mapping = NoneV
    /\ loop = [installed |-> "none", ran |-> <<>>]
    /\ registry = <<>>

CallCompileValue ==
    /\ pc = "declare"
    /\ pc' = "returned"
    /\ call' = [call EXCEPT !.op = "compile_value"]
    /\ result' = compile_resolved(extract_annotation_info(call.annotation),
                                  call.raw_value)
    /\ UNCHANGED <<target, mapping, loop, registry>>

NextValue == CallCompileValue

SpecValue == InitValue /\ [][NextValue]_vars

\* ------------------------------------------------------------ _registry.py
\* _registry.py:23-30  a registry: the override flag and the entries, a dict
\* in insertion order of {name, description, obj}
ToolRegistry(override) == [override |-> override, entries |-> <<>>]

\* the position of the entry with that key, 0 when there is none
RECURSIVE EntryIndex(_, _, _)
EntryIndex(entries, key, i) ==
    IF i > Len(entries) THEN 0
    ELSE IF entries[i].name = key THEN i
    ELSE EntryIndex(entries, key, i + 1)

\* entries[key] = e: a new key goes to the end, a known key keeps its place
SetEntry(entries, e, p) ==
    IF p = 0 THEN Append(entries, e) ELSE [entries EXCEPT ![p] = e]

\* _registry.py:49
store_entry(r, key, description, obj) ==
    Ok([r EXCEPT !.entries =
           SetEntry(r.entries, [name |-> key, description |-> description, obj |-> obj],
                    EntryIndex(r.entries, key, 1))])

\* a registration that never refuses
store_always(r, key, description, obj, p) == store_entry(r, key, description, obj)

\* _registry.py:45-49  the entry at p (0: none) holds another object and the
\* registry does not override: RegistryException, the registry as it was
check_entry(r, key, description, obj, p) ==
    IF p # 0 /\ r.entries[p].obj # obj /\ ~r.override
    THEN [exc |-> "RegistryException", val |-> r]
    ELSE store_entry(r, key, description, obj)

\* _registry.py:44  key = name or obj.__name__
key_of(obj, name) == IF Truthy(name) THEN name.s ELSE obj.name

\* _registry.py:41-49  __register: the outcome and the registry it leaves
register_entry(r, obj, name, description) ==
    check_entry(r, key_of(obj, name), description, obj,
                EntryIndex(r.entries, key_of(obj, name), 1))

RECURSIVE register_multiple(_, _, _)

next_object(objs, i, out) ==
    IF out.exc # "" THEN out ELSE register_multiple(out.val, objs, i + 1)

\* _registry.py:157-158  the objects from objs[i] on, until one is refused
register_multiple(r, objs, i) ==
    IF i > Len(objs) THEN Ok(r)
    ELSE next_object(objs, i, register_entry(r, objs[i], NoneV, NoneV))

\* {**entries, **others}: a new dict, the entries of others from others[i] on
\* put over those of entries
RECURSIVE dict_update(_, _, _)
dict_update(entries, others, i) ==
    IF i > Len(others) THEN entries
    ELSE dict_update(SetEntry(entries, others[i],
                              EntryIndex(entries, others[i].name, 1)),
                     others, i + 1)

\* the sum that holds the entries of the left operand only
add_left(r, other) == [override |-> FALSE, entries |-> r.entries]

\* _registry.py:64-68  __add__
registry_add(r, other) ==
    [override |-> FALSE, entries |-> dict_update(r.entries, other.entries, 1)]

\* the lookup that takes the first entry, whatever the name
lookup_first(r, name, arguments, p) ==
    IF r.entries = <<>> THEN Raise("RegistryException")
    ELSE compile_object(r.entries[1].obj,
                        IF Truthy(arguments) THEN arguments ELSE Dict(<<>>))

\* _registry.py:224-229  the entry at p (0: none) is compiled with
\* `arguments or {}`
lookup_entry(r, name, arguments, p) ==
    IF p = 0 THEN Raise("RegistryException")
    ELSE compile_object(r.entries[p].obj,
                        IF Truthy(arguments) THEN arguments ELSE Dict(<<>>))

\* _registry.py:221-229
compile_named(r, name, arguments) ==
    IF name = NoneV /\ arguments = NoneV THEN Raise("ValueError")
    ELSE lookup_entry(r, name, arguments,
                      IF name.k = "str" THEN EntryIndex(r.entries, name.s, 1) ELSE 0)

\* _registry.py:219  name, arguments = parse_expression(expression)
compile_parsed(r, parsed) ==
    IF parsed.exc # "" THEN parsed
    ELSE compile_named(r, parsed.val.items[1], parsed.val.items[2])

\* _registry.py:211-229  ToolRegistry.compile
registry_compile(r, expression, name, arguments) ==
    IF Truthy(expression) THEN compile_parsed(r, parse_expression(expression))
    ELSE compile_named(r, name, arguments)

\* what compile leaves of the mapping the caller handed over
RegistryArgumentsAfter(r, expression, name, arguments) ==
    IF Truthy(expression) \/ name.k # "str" \/ EntryIndex(r.entries, name.s, 1) = 0
    THEN arguments
    ELSE ArgumentsAfter(r.entries[EntryIndex(r.entries, name.s, 1)].obj, arguments)

\* ------------------------------------------------ the machine: registries
MaxCalls == 2

TemplateOf(label) == CHOOSE m \in MemberTemplates : m.label = label

\* the tools: two different objects named Tool and one named get_tool
RegistryObjects ==
    {ClassDef("Tool", "function", <<TemplateOf("name")>>, DocOf("function")),
     ClassDef("Tool", "typeddict", <<TemplateOf("name"), TemplateOf("age")>>, ""),
     ClassDef("get_tool", "function", <<TemplateOf("limit")>>, DocOf("function"))}

RegisterNames == {NoneV, Str("get_tool")}

ItemKeys == {Str("Tool"), Str("")}

\* the lists given to register_multiple
ObjectLists ==
    {objs \in SeqsUpTo(RegistryObjects, 2) :
        Len(objs) = 2 => objs[1].kind = "function" /\ objs[2].name = "Tool"}

CompileNames == {NoneV, Str("Tool"), Str("missing")}

CompileArguments ==
    {NoneV, Dict(<<Entry("name", Str("Alice"))>>),
     Dict(<<Entry("*args", List(<<Int("7")>>))>>)}

CompileExpressions ==
    {SourceText(<<Statement("Expr", c)>>) :
        c \in {Call(Name("Tool"), <<>>, <<keyword("name", Constant(Str("Alice")))>>),
               Call(Name("get_tool"), <<Constant(Int("7"))>>, <<>>),
               Call(Name("missing"), <<Constant(Int("7"))>>, <<>>)}}
      \cup {Str("f(")}

\* the second registry of a session: a new one, or one on which
\* register_multiple was called with the typed dict Tool and get_tool
SeededRegistries ==
    {ToolRegistry(FALSE)}
      \cup {register_multiple(ToolRegistry(FALSE), objs, 1).val :
               objs \in {x \in SeqsUpTo(RegistryObjects, 2) :
                           /\ Len(x) = 2
                           /\ x[1].name = "get_tool"
                           /\ x[2].kind = "typeddict"}}

InitRegistry ==
    /\ pc = "declare"
    /\ target = ClassDef(TargetName, "object", <<>>, "")
    /\ call = NoCall
    /\ result = Ok(NoneV)
    /\ mapping = NoneV
    /\ loop = [installed |-> "none", ran |-> <<>>]
    /\ registry \in {<<ToolRegistry(a), r>> : a \in BOOLEAN, r \in SeededRegistries}

\* a call on registry i is made: the call's position in the session
Calls(op, i) ==
    /\ call.step < MaxCalls
    /\ pc' = "returned"
    /\ op.registry = i
    /\ op.step = call.step + 1
    /\ call' = op

\* the outcome of a registration on registry i
RegistryReturns(i, out) ==
    /\ registry' = [registry EXCEPT ![i] = out.val]
    /\ result' = [exc |-> out.exc, val |-> NoneV]

\* _registry.py:120-131
CallRegister(i, obj, name, description) ==
    /\ Calls([NoCall EXCEPT !.op = "register", !.registry = i, !.obj = obj,
                            !.name = name, !.description = description,
                            !.step = call.step + 1], i)
    /\ RegistryReturns(i, register_entry(registry[i], obj, name, description))
    /\ UNCHANGED <<target, mapping, loop>>

\* _registry.py:51-52
CallSetItem(i, key, value) ==
    /\ Calls([NoCall EXCEPT !.op = "__setitem__", !.registry = i, !.obj = value,
                            !.name = key, !.step = call.step + 1], i)
    /\ RegistryReturns(i, register_entry(registry[i], value, key, NoneV))
    /\ UNCHANGED <<target, mapping, loop>>

\* _registry.py:133-158
CallRegisterMultiple(i, objs) ==
    /\ Calls([NoCall EXCEPT !.op = "register_multiple", !.registry = i,
                            !.objs = objs, !.step = call.step + 1], i)
    /\ RegistryReturns(i, register_multiple(registry[i], objs, 1))
    /\ UNCHANGED <<target, mapping, loop>>

\* _registry.py:64-68  the sum is one more registry
CallAdd(i, j) ==
    /\ Calls([NoCall EXCEPT !.op = "__add__", !.registry = i, !.other = j,
                            !.step = call.step + 1], i)
    /\ registry' = Append(registry, registry_add(registry[i], registry[j]))
    /\ result' = Ok(NoneV)
    /\ UNCHANGED <<target, mapping, loop>>

\* _registry.py:211-229
CallRegistryCompile(i, expression, name, arguments) ==
    /\ Calls([NoCall EXCEPT !.op = "compile", !.registry = i,
                            !.expression = expression, !.name = name,
                            !.arguments = arguments, !.step = call.step + 1], i)
    /\ Returns(registry_compile(registry[i], expression, name, arguments))
    /\ mapping' = RegistryArgumentsAfter(registry[i], expression, name, arguments)
    /\ UNCHANGED <<target, registry>>

NextRegistry ==
    \/ \E i \in 1..Len(registry), obj \in RegistryObjects, name \in RegisterNames,
          description \in Descriptions : CallRegister(i, obj, name, description)
    \/ \E i \in 1..Len(registry), key \in ItemKeys, value \in RegistryObjects :
          CallSetItem(i, key, value)
    \/ \E i \in 1..Len(registry), objs \in ObjectLists :
          CallRegisterMultiple(i, objs)
    \/ \E i, j \in 1..Len(registry) : CallAdd(i, j)
    \/ \E i \in 1..Len(registry), name \in CompileNames,
          arguments \in CompileArguments :
          CallRegistryCompile(i, NoneV, name, arguments)
    \/ \E i \in 1..Len(registry), expression \in CompileExpressions :
          CallRegistryCompile(i, expression, NoneV, NoneV)

SpecRegistry == InitRegistry /\ [][NextRegistry]_vars

\* --------------------------------------------------------------- the claims
\* the raw value the call hands to member i: positionally, through the list
\* under "*args" of a function's mapping, or under the member's label
Positional(i) ==
    /\ target.kind = "function"
    /\ DictHas(call.arguments, "*args")
    /\ i <= Len(DictGet(call.arguments, "*args").items)

RawValue(i) ==
    IF Positional(i)
    THEN DictGet(call.arguments, "*args").items[i]
    ELSE DictGet(call.arguments, target.members[i].label)

\* the call hands a value to member i
Given(i) == Positional(i) \/ DictHas(call.arguments, target.members[i].label)

Returned(op) == pc = "returned" /\ call.op = op

IsRecord(cls) == cls.kind \in {"pydantic", "typeddict", "namedtuple"}

\* the declaration spells Optional[...]: a union of two arms, one of them None
DeclaredOptional(m) ==
    /\ m.annotation.k = "generic"
    /\ m.annotation.s = "Union"
    /\ Len(m.annotation.items) = 2
    /\ Type("NoneType") \in SeqToSet(m.annotation.items)

\* the declaration gives the member neither Optional nor a default
DeclaredRequired(m) == ~DeclaredOptional(m) /\ m.default = Missing

RequiredLabels(members) ==
    LET req == SelectSeq(members, DeclaredRequired)
    IN  [i \in 1..Len(req) |-> Str(req[i].label)]

\* the annotation names the declared target itself, directly or as a type
\* argument
NamesTarget(a) == a \in {Type(TargetName), ForwardRef(TargetName)}

SelfTyped(a) ==
    \/ NamesTarget(a)
    \/ a.k = "generic" /\ \E i \in 1..Len(a.items) : NamesTarget(a.items[i])

\* the annotation lies in the supported vocabulary (section 6 of the
\* specification); the declared target is left out, see SelfTyped
RECURSIVE InVocabulary(_)
InVocabulary(a) ==
    CASE a.k = "type" ->
           a.s \in {"str", "int", "float", "bool", "ColorEnum", "HeroInfo"}
      [] a.k = "generic" /\ a.s = "Union" ->
           /\ Len(a.items) = 2
           /\ Type("NoneType") \in SeqToSet(a.items)
           /\ \A i \in 1..2 : a.items[i] = Type("NoneType") \/ InVocabulary(a.items[i])
      [] a.k = "generic" /\ a.s \in {"list", "set"} -> InVocabulary(a.items[1])
      [] a.k = "generic" /\ a.s = "Literal" -> TRUE
      [] OTHER -> FALSE

AllInVocabulary(cls) ==
    \A i \in 1..Len(cls.members) : InVocabulary(cls.members[i].annotation)

\* the object schema inside the envelope marshal_object returned
ObjectSchema ==
    DictGet(DictGet(result.val, "function"),
            IF call.spec = "claude" THEN "input_schema" ELSE "parameters")

\* the target cut down to its first n members
Prefix(cls, n) == [cls EXCEPT !.members = SubSeq(@, 1, n)]

\* the call of the current state made again, on another declaration
Replay(obj) ==
    IF call.op = "marshal_object"
    THEN marshal_object(obj, call.spec, call.name, call.description)
    ELSE compile_object(obj, call.arguments)

\* C1: for every function or record handed to marshal_object, the properties
\* of the object schema are the declared members in declaration order, and
\* required lists, in that order, exactly the members that are neither
\* Optional nor have a default.
C1_PropertiesAndRequired ==
    (Returned("marshal_object") /\ result.exc = "" /\ target.members # <<>>) =>
        /\ DictKeys(DictGet(ObjectSchema, "properties"))
             = [i \in 1..Len(target.members) |-> target.members[i].label]
        /\ DictGet(ObjectSchema, "required").items = RequiredLabels(target.members)

HasSelfTyped(cls) ==
    \E i \in 1..Len(cls.members) : SelfTyped(cls.members[i].annotation)

FirstSelfTyped(cls) ==
    CHOOSE j \in 1..Len(cls.members) :
        /\ SelfTyped(cls.members[j].annotation)
        /\ \A i \in 1..(j - 1) : ~SelfTyped(cls.members[i].annotation)

\* C2 (as stated): every record type with a self-typed field makes both
\* marshal_object and compile_object (from a mapping) raise
\* RecursiveParameterException.
C2_AlwaysRecursiveParameter ==
    (/\ pc = "returned"
     /\ \/ call.op = "marshal_object"
        \/ call.op = "compile_object" /\ call.arguments.k = "dict"
     /\ IsRecord(target)
     /\ HasSelfTyped(target)) => result.exc = "RecursiveParameterException"

\* C2 (amended): a record type with a self-typed field never marshals or
\* compiles: both calls fail; the outcome is the one of the record cut after
\* its first self-typed field (neither that field nor a later one is
\* traversed); and it is RecursiveParameterException naming that field unless
\* the fields declared before it, or the arguments as a whole, already raise.
C2_RecursiveFieldRejected ==
    (/\ pc = "returned"
     /\ call.op \in {"marshal_object", "compile_object"}
     /\ IsRecord(target)
     /\ HasSelfTyped(target)) =>
        /\ result.exc # ""
        /\ result = Replay(Prefix(target, FirstSelfTyped(target)))
        /\ \/ result = Raise2("RecursiveParameterException",
                              target.members[FirstSelfTyped(target)].label)
           \/ result = Replay(Prefix(target, FirstSelfTyped(target) - 1))

\* a record whose second field is self-typed is compiled from arguments that
\* satisfy its first field: the recursive-field error names the second field
C2_Witness ==
    /\ Returned("compile_object")
    /\ IsRecord(target)
    /\ Len(target.members) = 2
    /\ ~SelfTyped(target.members[1].annotation)
    /\ SelfTyped(target.members[2].annotation)
    /\ call.arguments.k = "dict"
    /\ Given(1)
    /\ result = Raise2("RecursiveParameterException", target.members[2].label)

\* C3: compiling a record from arguments in which a field that is not
\* Optional and has no default is absent raises RequiredParameterException
\* (stated for the empty mapping and supported annotations, where nothing
\* else can fail first).
C3_MissingRequiredField ==
    (/\ Returned("compile_object")
     /\ IsRecord(target)
     /\ call.arguments = Dict(<<>>)
     /\ AllInVocabulary(target)
     /\ \E i \in 1..Len(target.members) : DeclaredRequired(target.members[i]))
        => result.exc = "RequiredParameterException"

\* C4: compiling a function from arguments in which a parameter that is not
\* Optional and has no default is absent raises RequiredParameterException
\* and the function is not invoked (stated for the empty mapping and
\* supported annotations, where nothing else can fail first).
C4_MissingRequiredParameter ==
    (/\ Returned("compile_object")
     /\ target.kind = "function"
     /\ call.arguments = Dict(<<>>)
     /\ AllInVocabulary(target)
     /\ \E i \in 1..Len(target.members) : DeclaredRequired(target.members[i]))
        => result.exc = "RequiredParameterException"

\* the value the compiled instance (or the call of the function) holds for
\* the member named label
FieldOf(label) ==
    IF result.val.k = "return" THEN DictGet(result.val.items[2], label)
    ELSE DictGetFrom(result.val.items, label, 1)

IsEnumType(a) == a.k = "type" /\ ClassOf(a.s).kind = "enum"

IsLiteralType(a) == a.k = "generic" /\ a.s = "Literal"

\* the type a raw value is brought to before the membership test: str for an
\* enumeration, the type of the literals for a Literal
AllowedType(a) == IF IsEnumType(a) THEN "str" ELSE a.items[1].k

\* the raw value brought to that type, as Python does it
Coerced(a, v) ==
    IF isinstance(v, AllowedType(a)) THEN Ok(v) ELSE Construct(AllowedType(a), v)

\* membership in the allowed set: the member names, the literal values
InAllowedSet(a, c) ==
    IF IsEnumType(a)
    THEN c.k = "str" /\ c.items = <<>> /\ c.s \in Labels(ClassOf(a.s).members)
    ELSE PyIn(c, a.items)

ExactChoice(a, c) == IF IsEnumType(a) THEN EnumMember(ClassOf(a.s), c.s) ELSE c

ChoiceCompiled(m, v) ==
    /\ Coerced(m.annotation, v).exc = ""
    /\ InAllowedSet(m.annotation, Coerced(m.annotation, v).val)
    /\ FieldOf(m.label) = ExactChoice(m.annotation, Coerced(m.annotation, v).val)

ChoiceRejected(m, v) ==
    IF Coerced(m.annotation, v).exc # ""
    THEN result.exc = "TypeMismatchException"
    ELSE ~InAllowedSet(m.annotation, Coerced(m.annotation, v).val)
            => result.exc = "InvalidArgumentException"

C6_DefaultOrNone ==
    (/\ Returned("compile_object")
     /\ call.arguments.k = "dict"
     /\ result.exc = "") =>
        \A i \in 1..Len(target.members) :
           (/\ DeclaredOptional(target.members[i])
                 \/ target.members[i].default # Missing
            /\ ~Given(i))
             => FieldOf(target.members[i].label)
                  = IF target.members[i].default # Missing
                    THEN target.members[i].default
                    ELSE NoneV

\* C7: compile_object given text that is not valid JSON, or valid JSON whose
\* top-level value is no object, fails with ValueError.
C7_TextMustBeObject ==
    (/\ Returned("compile_object")
     /\ call.arguments.k = "str"
     /\ \/ json_loads(call.arguments).exc # ""
        \/ json_loads(call.arguments).val.k # "dict")
        => result.exc = "ValueError"

\* the annotation is outside the supported vocabulary (and not self-typed)
Unsupported(a) == ~InVocabulary(a) /\ ~SelfTyped(a)

HasUnsupported(cls) ==
    \E i \in 1..Len(cls.members) : Unsupported(cls.members[i].annotation)

FirstUnsupported(cls) ==
    CHOOSE j \in 1..Len(cls.members) :
        /\ Unsupported(cls.members[j].annotation)
        /\ \A i \in 1..(j - 1) : ~Unsupported(cls.members[i].annotation)

IsUnion(a) == a.k = "generic" /\ a.s = "Union"

\* the raw value v brings the compiler to the unsupported part of a: a union
\* is met by the resolver whatever the value; a type outside the vocabulary
\* by any value but None; the argument of a list or set by the resolver when
\* the value is a list, or else by an element of the list
RECURSIVE ReachesUnsupported(_, _)
ReachesUnsupported(a, v) ==
    IF IsUnion(a) THEN TRUE
    ELSE IF v = NoneV THEN FALSE
    ELSE IF a.k = "generic"
    THEN /\ v.k = "list"
         /\ \/ IsUnion(a.items[1])
            \/ \E i \in 1..Len(v.items) : ReachesUnsupported(a.items[1], v.items[i])
    ELSE TRUE

UnsupportedAtCompile(m, v) ==
    IF ReachesUnsupported(m.annotation, v)
    THEN result.exc = "UnsupportedTypeException"
    ELSE IF v = NoneV
    THEN /\ result.exc = IF IsRecord(target) THEN "RequiredParameterException"
                         ELSE "RecursiveParameterException"
         /\ result.val = Str(m.label)
    ELSE Len(target.members) = 1 => result.exc = "" /\ FieldOf(m.label) = v

TwoArmOptional(a) ==
    IsUnion(a) /\ Len(a.items) = 2 /\ Type("NoneType") \in SeqToSet(a.items)

OtherArm(a) == IF a.items[1] = Type("NoneType") THEN a.items[2] ELSE a.items[1]

\* the AnnotationInfo of the other arm, marked optional
OptionalOf(inner) ==
    IF inner.exc # "" THEN InfoValue(inner)
    ELSE InfoValue(Info(inner.base_type, inner.args, TRUE))

\* C9: extract_annotation_info returns is_optional = true if and only if the
\* annotation is a union of exactly two arms one of which is NoneType, and
\* then base_type and args are those of the other arm, resolved recursively;
\* every other union raises UnsupportedTypeException, wherever in an
\* annotation the resolver is applied.
C9_OptionalIffTwoArmUnion ==
    Returned("extract_annotation_info") =>
        /\ (IsUnion(call.annotation) /\ ~TwoArmOptional(call.annotation))
             => result.exc = "UnsupportedTypeException"
        /\ result.exc = ""
             => (result.val.s = "True" <=> TwoArmOptional(call.annotation))
        /\ TwoArmOptional(call.annotation)
             => result = OptionalOf(extract_annotation_info(OtherArm(call.annotation)))

\* the resolver returned for Optional[int]: optional, base type int
C9_Witness ==
    /\ Returned("extract_annotation_info")
    /\ call.annotation = Optional(Type("int"))
    /\ result = InfoValue(Info(Type("int"), <<>>, TRUE))

\* C10: marshal_object returns {type: "function", function: F}; F carries the
\* object schema under input_schema, and has no parameters key, when spec
\* is "claude", and under parameters, with no input_schema key, for every
\* other spec; F.name is the supplied name or else the object's own name.
C10_Envelope ==
    (Returned("marshal_object") /\ result.exc = "") =>
        /\ DictKeys(result.val) = <<"type", "function">>
        /\ DictGet(result.val, "type") = Str("function")
        /\ DictGet(result.val, "function").k = "dict"
        /\ DictHas(DictGet(result.val, "function"), "input_schema")
             <=> call.spec = "claude"
        /\ DictHas(DictGet(result.val, "function"), "parameters")
             <=> call.spec # "claude"
        /\ ObjectSchema = generate_metadata(target, 1, <<>>, <<>>, MaxDepth).val
        /\ DictGet(DictGet(result.val, "function"), "name")
             = IF call.name \notin {NoneV, Str("")} THEN call.name
               ELSE Str(target.name)

\* a declaration with members is marshalled for "claude" under a supplied
\* name
C10_Witness ==
    /\ Returned("marshal_object")
    /\ call.spec = "claude"
    /\ call.name = Str("get_tool")
    /\ target.members # <<>>
    /\ result.exc = ""
    /\ DictHas(DictGet(result.val, "function"), "input_schema")
    /\ DictGet(DictGet(result.val, "function"), "name") = Str("get_tool")

\* the raw value v conforms to the schema fragment f
RECURSIVE Conforms(_, _)
Conforms(f, v) ==
    IF f = Dict(<<>>) THEN v.k = "dict"
    ELSE IF DictHas(f, "enum")
    THEN \E i \in 1..Len(DictGet(f, "enum").items) : DictGet(f, "enum").items[i] = v
    ELSE CASE DictGet(f, "type") = Str("string") -> v.k = "str" /\ v.items = <<>>
           [] DictGet(f, "type") = Str("integer") -> v.k = "int"
           [] DictGet(f, "type") = Str("number") -> v.k \in {"int", "float"}
           [] DictGet(f, "type") = Str("boolean") -> v.k = "bool"
           [] DictGet(f, "type") = Str("array") ->
                /\ v.k = "list"
                /\ \A i \in 1..Len(v.items) : Conforms(DictGet(f, "items"), v.items[i])
           [] OTHER ->
                /\ v.k = "dict"
                /\ \A i \in 1..Len(DictGet(f, "required").items) :
                      DictHas(v, DictGet(f, "required").items[i].s)
                /\ \A i \in 1..Len(v.items) :
                      /\ DictHas(DictGet(f, "properties"), v.items[i].s)
                      /\ Conforms(DictGet(DictGet(f, "properties"), v.items[i].s),
                                  v.items[i].items[1])

\* the compiled value c is the raw value v up to the declared coercions:
\* a name becomes the enum member, a mapping the record instance, numbers
\* compare by value, a list is compared element by element
RECURSIVE SameUpToCoercion(_, _, _)
SameUpToCoercion(a, v, c) ==
    IF TwoArmOptional(a) THEN SameUpToCoercion(OtherArm(a), v, c)
    ELSE IF IsEnumType(a) THEN c = EnumMember(ClassOf(a.s), v.s)
    ELSE IF a.k = "type" /\ IsRecord(ClassOf(a.s))
    THEN /\ c.k \in {"instance:pydantic", "instance:typeddict", "instance:namedtuple"}
         /\ c.s = a.s
         /\ \A i \in 1..Len(v.items) :
               DictGetFrom(c.items, v.items[i].s, 1) = v.items[i].items[1]
    ELSE IF a.k = "generic" /\ a.s = "list"
    THEN /\ c.k = "list"
         /\ Len(c.items) = Len(v.items)
         /\ \A i \in 1..Len(v.items) : SameUpToCoercion(a.items[1], v.items[i], c.items[i])
    ELSE PyEq(c, v)

\* the object schema marshal_object gives for the target
SchemaOfTarget ==
    DictGet(DictGet(marshal_object(target, "base", NoneV, NoneV).val, "function"),
            "parameters")

\* the arguments hold exactly the required members of the schema, each with
\* a value that conforms to its fragment
RequiredFilled(schema, arguments) ==
    /\ [i \in 1..Len(arguments.items) |-> Str(arguments.items[i].s)]
         = DictGet(schema, "required").items
    /\ Conforms(schema, arguments)

\* C11: round-trip: for every record type that marshals without error,
\* arguments that give each member listed in required a value conforming to
\* its schema fragment compile to an instance whose fields equal the supplied
\* values up to the declared coercions, the omitted members at their
\* defaults (None when there is none).
C11_RoundTrip ==
    (/\ Returned("compile_object")
     /\ IsRecord(target)
     /\ target.members # <<>>
     /\ call.arguments.k = "dict"
     /\ marshal_object(target, "base", NoneV, NoneV).exc = ""
     /\ RequiredFilled(SchemaOfTarget, call.arguments)) =>
        /\ result.exc = ""
        /\ \A i \in 1..Len(target.members) :
              IF Given(i)
              THEN SameUpToCoercion(target.members[i].annotation,
                                    RawValue(i),
                                    FieldOf(target.members[i].label))
              ELSE FieldOf(target.members[i].label)
                     = IF target.members[i].default # Missing
                       THEN target.members[i].default
                       ELSE NoneV

C13_ArgumentsUnchanged ==
    (Returned("compile_object") /\ call.arguments.k = "dict") =>
        /\ mapping = call.arguments
        /\ compile_object(target, mapping) = result


\* the same function declared without `async`
SyncTwin(fn) ==
    [name |-> fn.name, kind |-> fn.kind, members |-> fn.members, doc |-> fn.doc]

\* r is what the plain function gives for the arguments of the call: when it
\* is a value, the coroutine was created and handed to run_async
DrivenToCompletion(r) ==
    r.exc = "" =>
        /\ call.installed = "open" =>
               /\ result = r
               /\ loop = [installed |-> "open", ran |-> <<"installed">>]
        /\ call.installed \in {"none", "implicit", "closed"} =>
               /\ result = r
               /\ loop.ran = <<"fresh">>
        /\ call.installed = "running" =>
               /\ result.exc = "RuntimeError"
               /\ loop = [installed |-> "running", ran |-> <<>>]

OneExpression(text) ==
    text.s = "python" /\ Len(text.items) = 1 /\ text.items[1].k = "Expr"

\* the text is exactly one call of the form identifier(arguments)
ExactlyOneCall(text) ==
    /\ OneExpression(text)
    /\ text.items[1].items[1].k = "Call"
    /\ text.items[1].items[1].items[1].k = "Name"

\* the node holds a reference to a name or a call
RECURSIVE RefersOrCalls(_)
RefersOrCalls(node) ==
    \/ node.k \in {"Name", "Call", "Attribute"}
    \/ \E i \in 1..Len(node.items) : RefersOrCalls(node.items[i])

\* the argument values of a call node, positional and keyword
ArgumentValues(call_node) ==
    {call_node.items[2].items[i] : i \in 1..Len(call_node.items[2].items)}
      \cup {call_node.items[3].items[i].items[1] :
               i \in 1..Len(call_node.items[3].items)}

\* C15: parse_expression accepts only literal argument values: a call of an
\* identifier with an argument, positional or keyword, that holds a name
\* reference or a nested call raises ValueError and returns nothing.
C15_OnlyLiteralArguments ==
    (/\ Returned("parse_expression")
     /\ ExactlyOneCall(call.expression)
     /\ \E a \in ArgumentValues(call.expression.items[1].items[1]) : RefersOrCalls(a))
        => result.exc = "ValueError"

\* C16: parse_expression raises ValueError for every text that is not exactly
\* one call of the form identifier(arguments): the empty text, an expression
\* that is no call, a statement, a callee that is no identifier, a call
\* followed by further statements.
C16_NotOneCallIsValueError ==
    (Returned("parse_expression") /\ ~ExactlyOneCall(call.expression))
        => result.exc = "ValueError"


\* the names registered in r
NamesOf(r) == {r.entries[p].name : p \in 1..Len(r.entries)}

\* key is bound in entries to an object other than obj
BoundToOther(entries, key, obj) ==
    \E p \in 1..Len(entries) : entries[p].name = key /\ entries[p].obj # obj

\* every binding of before is still there in after, at its place
BindingsKept(before, after) ==
    /\ Len(after) >= Len(before)
    /\ \A p \in 1..Len(before) :
          after[p].name = before[p].name /\ after[p].obj = before[p].obj

\* a call c that registers on a registry that went from before to after
Registration(c, before, after) ==
    /\ BindingsKept(before, after)
    /\ (/\ c.op \in {"register", "__setitem__"}
        /\ BoundToOther(before, key_of(c.obj, c.name), c.obj))
          => result'.exc = "RegistryException" /\ registry' = registry
    /\ c.op = "register_multiple" =>
          \A k \in 1..Len(c.objs) :
             BoundToOther(before, c.objs[k].name, c.objs[k])
                => /\ result'.exc = "RegistryException"
                   /\ Len(after) < Len(before) + k

C17_Step ==
    (/\ call'.op \in {"register", "__setitem__", "register_multiple"}
     /\ ~registry[call'.registry].override)
        => Registration(call', registry[call'.registry].entries,
                        registry'[call'.registry].entries)

CompilesBound(r, name, arguments) ==
    IF name \notin NamesOf(r)
    THEN result = Raise("RegistryException") /\ loop.ran = <<>>
    ELSE \E p \in 1..Len(r.entries) :
            /\ r.entries[p].name = name
            /\ result = compile_object(r.entries[p].obj,
                                        IF arguments = NoneV THEN Dict(<<>>)
                                        ELSE arguments)

\* the same for the name and arguments that parse_expression gave
CompilesParsed(r, name, parsed) ==
    parsed.exc = "" => CompilesBound(r, name, parsed.val.items[2])

\* C18: ToolRegistry.compile with a name that is not registered, given
\* directly or as the callee of a call expression, raises RegistryException
\* and nothing is invoked or constructed; with a registered name the outcome
\* is that of compiling the object bound to the name.
C18_CompilesBoundObject ==
    Returned("compile") =>
        /\ (~Truthy(call.expression) /\ call.name.k = "str")
              => CompilesBound(registry[call.registry], call.name.s, call.arguments)
        /\ (Truthy(call.expression) /\ ExactlyOneCall(call.expression))
              => CompilesParsed(registry[call.registry],
                                call.expression.items[1].items[1].items[1].s,
                                parse_expression(call.expression))

C18_Witness ==
    /\ Returned("compile")
    /\ Truthy(call.expression)
    /\ ExactlyOneCall(call.expression)
    /\ Len(registry[call.registry].entries) = 2
    /\ result.exc = ""
    /\ result.val.k = "return"

\* the sum s of the registries a and b
IsSum(s, a, b) ==
    /\ NamesOf(s) = NamesOf(a) \cup NamesOf(b)
    /\ Len(s.entries) = Cardinality(NamesOf(a) \cup NamesOf(b))

C19_Step ==
    /\ call'.op = "__add__" =>
          /\ Len(registry') = Len(registry) + 1
          /\ \A k \in 1..Len(registry) : registry'[k] = registry[k]
          /\ IsSum(registry'[Len(registry')], registry[call'.registry],
                   registry[call'.other])
    /\ call'.op \in {"register", "__setitem__", "register_multiple"} =>
          /\ Len(registry') = Len(registry)
          /\ \A k \in 1..Len(registry) :
                k # call'.registry => registry'[k] = registry[k]

\* C19: r1 + r2 is one more registry; its names are the union of the names of
\* r1 and r2 and its length the size of that union; the addition leaves r1
\* and r2 as they were, and a later registration on any registry, the sum
\* included, changes no other registry.
C19_SumIsUnion == [][C19_Step]_vars

C19_Witness ==
    /\ pc = "returned"
    /\ call.op = "__add__"
    /\ call.registry # call.other
    /\ registry[call.registry].entries # <<>>
    /\ registry[call.other].entries # <<>>
    /\ NamesOf(registry[call.registry]) # NamesOf(registry[call.other])
    /\ Len(registry[Len(registry)].entries) = 2


\* the Literal[...] of the annotation, under the optional when there is one
LiteralOf(a) == IF a.s = "Literal" THEN a ELSE a.items[1]

\* the values of the literal are all of the scalar type k
LiteralOfType(a, k) ==
    \A i \in 1..Len(LiteralOf(a).items) : LiteralOf(a).items[i].k = k

ScalarName(k) ==
    CASE k = "str" -> "string"
      [] k = "int" -> "integer"
      [] k = "float" -> "number"
      [] k = "bool" -> "boolean"

\* the fragment with the scalar type of k and the values as the enum
EnumFragment(a, k) ==
    /\ result.exc = ""
    /\ SeqToSet(DictKeys(result.val)) = {"type", "enum"}
    /\ DictGet(result.val, "type") = Str(ScalarName(k))
    /\ DictGet(result.val, "enum") = List(LiteralOf(a).items)

\* C20 as stated: every Literal[...] of str, int, float or bool values is
\* marshalled to {type: scalar type of the values, enum: the values in
\* declaration order}.
C20_AlwaysEnum ==
    Returned("marshal_annotation") =>
        \A k \in {"str", "int", "float", "bool"} :
           LiteralOfType(call.annotation, k) => EnumFragment(call.annotation, k)

\* C20: a Literal[...] of str, int or float values is marshalled to {type:
\* scalar type of the values, enum: the values in declaration order}; a
\* Literal[...] of bool values is marshalled to {type: boolean}, without enum.
C20_EnumUnlessBool ==
    Returned("marshal_annotation") =>
        /\ \A k \in {"str", "int", "float"} :
              LiteralOfType(call.annotation, k) => EnumFragment(call.annotation, k)
        /\ LiteralOfType(call.annotation, "bool")
              => result = Ok(Dict(<<Entry("type", Str("boolean"))>>))

C20_Witness ==
    /\ Returned("marshal_annotation")
    /\ LiteralOfType(call.annotation, "bool")
    /\ Len(LiteralOf(call.annotation).items) = 2
    /\ result = Ok(Dict(<<Entry("type", Str("boolean"))>>))


\* the annotation is a list or a set with an element type
IsSequenceOf(a) == a.k = "generic" /\ a.s \in {"list", "set"}

\* what compiling the elements one by one against the element annotation
\* gives: the first error, or the list of the compiled elements
ElementsCompiled(a, v) ==
    compile_items(extract_annotation_info(a.items[1]), v.items, <<>>, MaxDepth - 1)

\* the result holds the compiled elements r: all of them in order for a
\* list, without duplicates for a set
HoldsElements(a, r) ==
    IF r.exc # "" THEN result.exc = r.exc
    ELSE IF a.s = "list" THEN result = r
    ELSE result = Ok(Node("set", "", Dedup(r.val.items, <<>>)))

\* C21: for a member annotated as a list or set with an element type, a raw
\* value that is no list raises TypeMismatchException; otherwise the elements
\* are compiled against the element annotation, an element that fails makes
\* the compile fail, and the result is the list of the compiled elements in
\* order, or the set of them without duplicates.
C21_Sequences ==
    (/\ Returned("compile_value")
     /\ IsSequenceOf(call.annotation)
     /\ call.raw_value # NoneV) =>
        IF call.raw_value.k # "list" THEN result.exc = "TypeMismatchException"
        ELSE HoldsElements(call.annotation,
                           ElementsCompiled(call.annotation, call.raw_value))

\* C22: for a member annotated as a Path or an Enum, a raw value that is
\* neither None nor a string raises TypeMismatchException.
C22_PathAndEnumNeedStr ==
    (/\ Returned("compile_value")
     /\ call.annotation \in {Type("Path"), Type("ColorEnum")}
     /\ call.raw_value # NoneV
     /\ call.raw_value.k # "str")
        => result.exc = "TypeMismatchException"

\* C23: for a member of primitive type, a raw value of that type is returned
\* as it is, and every other raw value is either coerced by the constructor
\* of the type or makes the compile raise TypeMismatchException, no other
\* exception.
C23_OnlyTypeMismatch ==
    (/\ Returned("compile_value")
     /\ call.annotation \in {Type(x) : x \in {"str", "int", "float", "bool",
                                               "list", "dict", "set"}}
     /\ call.raw_value # NoneV) =>
        /\ result.exc \in {"", "TypeMismatchException"}
        /\ call.raw_value.k = call.annotation.s => result = Ok(call.raw_value)
        /\ (call.annotation.s \in {"bool", "list", "dict", "set"}
            /\ call.raw_value.k # call.annotation.s)
              => result.exc = "TypeMismatchException"


\* the annotation of parameter i does not resolve, or its raw value does not
\* compile
ParameterFails(i) ==
    compile_resolved(extract_annotation_info(target.members[i].annotation),
                     RawValue(i)).exc # ""

SchemaTypes == {"string", "integer", "number", "boolean", "array", "object"}

\* a schema fragment is a mapping whose "type" is in the vocabulary, and so is
\* every value under its "properties" and its "items"
RECURSIVE TypedFragment(_)
TypedFragment(d) ==
    /\ d.k = "dict"
    /\ DictHas(d, "type")
    /\ DictGet(d, "type") \in {Str(t) : t \in SchemaTypes}
    /\ DictHas(d, "properties") =>
          \A j \in 1..Len(DictGet(d, "properties").items) :
              TypedFragment(DictGet(d, "properties").items[j].items[1])
    /\ DictHas(d, "items") => TypedFragment(DictGet(d, "items"))

\* C25: every schema fragment marshal_object emits without error (the
\* parameter block and every value under properties or items, at any depth)
\* is a mapping with a "type" key whose value is string, integer, number,
\* boolean, array or object, also for a target without members.
C25_EveryFragmentTyped ==
    (Returned("marshal_object") /\ result.exc = "") => TypedFragment(ObjectSchema)

\* the same, for targets that declare at least one member
C25x_WithMembers ==
    (Returned("marshal_object") /\ result.exc = "" /\ target.members # <<>>)
        => TypedFragment(ObjectSchema)

\* the target reaches its own type through a field the recursive-field check
\* does not see: through two container levels, or through a second record
ReachesItself ==
    \E i \in 1..Len(target.members) :
        target.members[i].label \in {"nested", "peer", "peers"}

\* C26: marshal_object comes to an end by itself, with a schema or with an
\* error it raises, for every finite set of record types: the traversal never
\* descends until the call stack is used up, also when a field reaches its own
\* type through two container levels or through a second record.
C26_Terminates ==
    Returned("marshal_object") => result.exc # "RecursionError"

\* the same, for targets none of whose fields reaches the target that way
C26x_WithoutCycle ==
    (Returned("marshal_object") /\ ~ReachesItself) => result.exc # "RecursionError"

\* marshal_object lists member i in "required"
ListedRequired(i) ==
    Str(target.members[i].label) \in SeqToSet(DictGet(SchemaOfTarget, "required").items)

\* the arguments leave out member i and give every other member a value
\* that compiles
OmitsOnly(i) ==
    /\ ~Given(i)
    /\ \A j \in 1..Len(target.members) : j # i => Given(j) /\ ~ParameterFails(j)

C27x_RecordsAgree ==
    (/\ Returned("compile_object")
     /\ IsRecord(target)
     /\ call.arguments.k = "dict"
     /\ marshal_object(target, "base", NoneV, NoneV).exc = "") =>
        \A i \in 1..Len(target.members) :
            OmitsOnly(i) =>
                (ListedRequired(i) <=> result.exc = "RequiredParameterException")

\* the value the function receives for parameter i: the compiled raw value,
\* the default in place of None
Received(i) ==
    ParameterValue(target.members[i],
                   compile_resolved(extract_annotation_info(target.members[i].annotation),
                                    RawValue(i)).val)

PositionalOnly(m) == m.posonly

\* the positional-only parameters, and the others, in declaration order
PassedPositionally == SelectSeq(target.members, PositionalOnly)
PassedByKeyword == SelectSeq(target.members, LAMBDA m : ~m.posonly)

IndexOfLabel(label) ==
    CHOOSE i \in 1..Len(target.members) : target.members[i].label = label

C29_SameException ==
    (/\ Returned("compile_object")
     /\ is_async(target)
     /\ target.body # "returns"
     /\ loop.ran # <<>>) =>
        /\ Len(loop.ran) = 1
        /\ result.exc = Await(target, NoneV).exc
        /\ result.val = Await(target, NoneV).val

\* the same, for bodies that raise another exception than RuntimeError
C29x_OtherExceptions ==
    (/\ Returned("compile_object")
     /\ is_async(target)
     /\ target.body = "raises ValueError"
     /\ loop.ran # <<>>) =>
        /\ Len(loop.ran) = 1
        /\ result.exc = Await(target, NoneV).exc
        /\ result.val = Await(target, NoneV).val

\* what the declaration assigns to the member in the class body, None when
\* it assigns nothing
AssignedDefault(m) == IF m.default = Missing THEN NoneV ELSE m.default

\* the members of the schema marshal_object returned that are in "required"
InRequired(m) == Str(m.label) \in SeqToSet(DictGet(ObjectSchema, "required").items)

\* for the members whose label is in labels: a member that is not Optional is
\* left out of required exactly when a default was assigned to it, and a
\* member the arguments leave out is filled in with the assigned default
DefaultIffAssigned(labels) ==
    /\ (Returned("marshal_object") /\ result.exc = "") =>
          \A i \in 1..Len(target.members) :
              (target.members[i].label \in labels
                 /\ ~DeclaredOptional(target.members[i])) =>
                  (InRequired(target.members[i])
                     <=> target.members[i].default = Missing)
    /\ (Returned("compile_object") /\ call.arguments.k = "dict" /\ result.exc = "") =>
          \A i \in 1..Len(target.members) :
              (target.members[i].label \in labels /\ ~Given(i)) =>
                  FieldOf(target.members[i].label)
                    = AssignedDefault(target.members[i])

\* C30: for a TypedDict record a field is treated as having a default (left
\* out of required by marshal, filled in by compile when absent) if and only
\* if a default was assigned to it in the class body, whatever the name of
\* the field, and the value filled in is the assigned default.
C30_TypedDictDefaults ==
    target.kind = "typeddict" => DefaultIffAssigned(Labels(target.members))

\* the same, for the fields whose name is no attribute of dict
C30x_OtherNames ==
    target.kind = "typeddict"
        => DefaultIffAssigned(Labels(target.members) \ DictAttributes)

====
